---------------------------- MODULE Spec2Model ----------------------------
(***************************************************************************)
(* cp-mentor backend: the AI service wrapper (services/aiService), the     *)
(* session ledger (models/Session and the /api/ai routes) and the          *)
(* credential guard (models/User, middleware/auth and the /api/auth        *)
(* routes), as state machines.                                             *)
(*                                                                         *)
(* Strings that the code inspects (provider replies, submitted code) are   *)
(* sequences of lexemes, so that trim() and includes() are computed and    *)
(* not assumed.  Dates are milliseconds; an unset Date is NoDate.          *)
(***************************************************************************)
EXTENDS Integers, Sequences, FiniteSets, TLC

VARIABLES
    fb,               \* two calls of getFallbackHint side by side: arguments and results
    now,              \* Date.now(), in milliseconds
    ticks,            \* how often the clock has advanced
    isHealthy,        \* AIService.isHealthy
    lastHealthCheck,  \* AIService.lastHealthCheck
    initPending,      \* the constructor's initialize() has not run its probe yet
    aiCall,           \* what the last AIService call was given and what it returned
    aiWait,           \* the AIService call in progress: where it stands at the provider
    sessions,         \* the Session collection: documents in insertion order, _id = position
    uuidCount,        \* how many ids crypto.randomUUID() has handed out
    req,              \* the /api/ai requests in flight: position, loaded document, response
    ops,              \* how many requests the ledger has served one at a time
    served,           \* the last request served one at a time: what it asked, what it got
    life,             \* the caller of endSession / addFeedback / the sweep: its loaded document
    events,           \* the Analytics collection: how many events of each type are stored
    users,            \* the User collection: documents in insertion order, _id = position
    tokens,           \* the bearer tokens clients hold
    authRes,          \* the last /api/auth or authenticated request: what it got
    authReq,          \* the /api/auth requests in flight: position, loaded document, response
    front,            \* the last /api/ai request through the middleware chain: what it sent, how far it got
    client,           \* the extension: ids generated, the last message of the background worker and its response
    prompt            \* the last prompt AIService built: lengths of what went in and of what it holds

aiVars == <<isHealthy, lastHealthCheck, initPending, aiCall, aiWait>>
clockVars == <<now, ticks>>
sessVars == <<sessions, uuidCount, req, ops, served, life, events, front, client, prompt>>
authVars == <<users, tokens, authRes, authReq>>
outsideAI == <<fb, sessVars, authVars, aiWait>>
outsideProvider == <<fb, sessVars, authVars, clockVars>>
outsideSessions == <<fb, aiVars, clockVars, authVars, life, front, client, prompt>>
outsideLife == <<fb, aiVars, authVars, uuidCount, req, ops, served, events, front, client, prompt>>
outsideAuth == <<fb, aiVars, sessVars, authReq>>
outsideUsers == <<fb, aiVars, sessVars, clockVars, authRes>>

----------------------------------------------------------------------------
(* Bounds of the model *)

MaxTicks == 2
MaxRespLen == 1
MaxCodeLen == 2
MaxPrevHints == 6
MaxSessions == 2
MaxOps == 4
NumRequests == 2
MaxUsers == 1
MaxTokens == 2
MaxExtraAttempts == 1
MaxLifeOps == 2
MaxAppends == 2
NumRacers == 1
NumAuthRequests == 2
MaxLogins == 3
MaxRegisters == 2
MaxAccounts == 3
MaxStagedOps == 3
MaxFrontOps == 1
MaxClientIds == 2
MaxStatusOps == 1

----------------------------------------------------------------------------
(* Generic helpers *)

NoDate == -1

Min(a, b) == IF a < b THEN a ELSE b

SeqsUpTo(S, n) == UNION {[1..k -> S] : k \in 0..n}

\* String.prototype.includes on a lexeme sequence: pat occurs contiguously in s
Includes(s, pat) ==
    \E i \in 0..(Len(s) - Len(pat)) :
        \A j \in 1..Len(pat) : s[i + j] = pat[j]

\* String.prototype.trim: whitespace lexemes removed from both ends
Trim(s) ==
    LET idx == {i \in 1..Len(s) : s[i] # " "}
    IN  IF idx = {} THEN <<>>
        ELSE LET lo == CHOOSE i \in idx : \A k \in idx : i <= k
                 hi == CHOOSE i \in idx : \A k \in idx : k <= i
             IN  SubSeq(s, lo, hi)

----------------------------------------------------------------------------
(* The provider: model.generateContent either raises or answers a text *)

RespLexemes == {" ", "OK", "hint"}

ProviderOutcomes ==
    {[raised |-> TRUE, text |-> <<>>]}
        \cup {[raised |-> FALSE, text |-> t] : t \in SeqsUpTo(RespLexemes, MaxRespLen)}

Platforms == {"leetcode", "codeforces"}

CodeLexemes == {"for", "return", "0", "map"}

UserCodes == SeqsUpTo(CodeLexemes, MaxCodeLen)

\* the submissions the service calls are tried with
SampleCodes == {<<"for">>, <<"for", "for">>, <<"return", "0">>}

ProbeOutcomes(due) == IF due THEN ProviderOutcomes ELSE {[raised |-> TRUE, text |-> <<>>]}

----------------------------------------------------------------------------
(* AIService *)

ProbeInterval == 60000

\* healthCheck() that keeps the flag when the provider raises
healthCheckKeepsOnError(out) ==
    IF out.raised
    THEN [isHealthy |-> isHealthy, lastHealthCheck |-> now]
    ELSE [isHealthy |-> Includes(Trim(out.text), <<"OK">>), lastHealthCheck |-> now]

\* healthCheck(): the state it leaves, given the provider's outcome
healthCheck(out) ==
    IF out.raised
    THEN [isHealthy |-> FALSE, lastHealthCheck |-> now]
    ELSE [isHealthy |-> Includes(Trim(out.text), <<"OK">>), lastHealthCheck |-> now]

\* the guard without its test of isHealthy
probeDueAlways ==
    /\ lastHealthCheck # NoDate
    /\ now - lastHealthCheck > ProbeInterval

\* the guard in front of generateHint and analyzeCode
probeDue ==
    /\ ~isHealthy
    /\ lastHealthCheck # NoDate
    /\ now - lastHealthCheck > ProbeInterval

detectLanguage(code) ==
    IF Includes(code, <<"def">>) THEN "python"
    ELSE IF Includes(code, <<"function">>) THEN "javascript"
    ELSE IF Includes(code, <<"#include">>) THEN "cpp"
    ELSE "unknown"

fallbackHints(hasCode) ==
    << "Start by understanding what the problem is asking. What are the inputs and expected outputs?",
       "Think about the constraints. What do they tell you about the expected time complexity?",
       "Consider what data structures would be most helpful for efficient lookups or storage.",
       "Break the problem into smaller steps. What would your algorithm do in each step?",
       "Think about edge cases. What happens with minimum or maximum input values?",
       IF hasCode
       THEN "Review your current approach step by step. Are you handling all the requirements?"
       ELSE "Time to start coding! Implement your approach and test with the examples." >>

\* index = Math.min(hintNumber, fallbackHints.length - 1), on a 0-based array
getFallbackHintWrapping(hintNumber, hasCode, platform, difficulty) ==
    LET ladder == fallbackHints(hasCode)
        index  == hintNumber % Len(ladder)
    IN  <<ladder[index + 1]>>

getFallbackHint(hintNumber, hasCode, platform, difficulty) ==
    LET ladder == fallbackHints(hasCode)
        index  == Min(hintNumber, Len(ladder) - 1)
    IN  <<ladder[index + 1]>>

NestedLoopNote == "**Potential Issue:** I see nested loops which might lead to O(n^2) time complexity."
PlaceholderNote == "**Implementation Status:** You have placeholder return values."
HashMapNote == "**Good Choice:** Using hash maps/dictionaries for efficient lookups is often the right approach!"

hasPlaceholderReturn(userCode) ==
    \/ Includes(userCode, <<"return", "[]">>)
    \/ Includes(userCode, <<"return", "0">>)
    \/ Includes(userCode, <<"return", "None">>)

getFallbackCodeAnalysis(userCode, platform) ==
    LET language == detectLanguage(userCode)
        header   == <<"**Code Analysis**", language>>
        loops    == IF Includes(userCode, <<"for">>) /\ Includes(userCode, <<"for">>)
                    THEN <<NestedLoopNote>> ELSE <<>>
        place    == IF hasPlaceholderReturn(userCode)
                    THEN <<PlaceholderNote>> ELSE <<>>
        maps     == IF \/ Includes(userCode, <<"dict">>)
                       \/ Includes(userCode, <<"{}">>)
                       \/ Includes(userCode, <<"map">>)
                       \/ Includes(userCode, <<"unordered_map">>)
                    THEN <<HashMapNote>> ELSE <<>>
        next     == IF platform = "codeforces"
                    THEN <<"**Next Steps:** Remember to check time limits!">>
                    ELSE <<"**Next Steps:** Focus on correctness first, then optimization.">>
    IN  header \o loops \o place \o maps \o next

NoCall ==
    [op |-> "none", nPrev |-> 0, userCode |-> <<>>, platform |-> "leetcode",
     providerFailed |-> FALSE, healthyAtCall |-> FALSE, probed |-> FALSE,
     raised |-> FALSE, content |-> <<>>,
     at |-> NoDate, healthyBefore |-> FALSE, lastCheckBefore |-> NoDate,
     probeRaised |-> FALSE, probeReply |-> <<>>]

\* what generateHint returns: the trimmed reply, or the fallback when the call raised
hintContent(out, nPrev, userCode, platform, difficulty) ==
    IF out.raised
    THEN getFallbackHint(nPrev, Len(userCode) > 0, platform, difficulty)
    ELSE Trim(out.text)

\* what analyzeCode returns
analysisContent(out, userCode, platform) ==
    IF out.raised
    THEN getFallbackCodeAnalysis(userCode, platform)
    ELSE Trim(out.text)

\* the wrapper's state once generateHint / analyzeCode has caught a provider failure
afterProviderCall(st, out) == st

\* initialize(): the constructor's probe
Initialize ==
    /\ initPending
    /\ \E out \in ProviderOutcomes :
        LET st == healthCheck(out)
        IN  /\ isHealthy' = st.isHealthy
            /\ lastHealthCheck' = st.lastHealthCheck
            /\ aiCall' = [NoCall EXCEPT !.op = "probe", !.providerFailed = out.raised,
                                        !.content = Trim(out.text), !.probed = TRUE,
                                        !.at = now, !.healthyBefore = isHealthy,
                                        !.lastCheckBefore = lastHealthCheck,
                                        !.probeRaised = out.raised,
                                        !.probeReply = out.text]
    /\ initPending' = FALSE
    /\ UNCHANGED <<outsideAI, clockVars>>

\* GET /api/ai/health -> AIService.healthCheck(): what the route does to AIService
healthRoute ==
    \E out \in ProviderOutcomes :
        LET st == healthCheck(out)
        IN  /\ isHealthy' = st.isHealthy
            /\ lastHealthCheck' = st.lastHealthCheck
            /\ aiCall' = [NoCall EXCEPT !.op = "probe", !.providerFailed = out.raised,
                                        !.content = Trim(out.text), !.probed = TRUE,
                                        !.at = now, !.healthyBefore = isHealthy,
                                        !.lastCheckBefore = lastHealthCheck,
                                        !.probeRaised = out.raised,
                                        !.probeReply = out.text]

\* GET /api/ai/health, on its own
HealthCheck ==
    /\ healthRoute
    /\ UNCHANGED <<outsideAI, initPending, clockVars>>

GenerateHint ==
    /\ \E nPrev \in {0, MaxPrevHints}, userCode \in {<<>>, <<"for">>},
          probeOut \in ProbeOutcomes(probeDue), out \in ProviderOutcomes :
        LET st0 == IF probeDue THEN healthCheck(probeOut)
                   ELSE [isHealthy |-> isHealthy, lastHealthCheck |-> lastHealthCheck]
            st  == afterProviderCall(st0, out)
        IN  /\ isHealthy' = st.isHealthy
            /\ lastHealthCheck' = st.lastHealthCheck
            /\ aiCall' = [op |-> "hint", nPrev |-> nPrev, userCode |-> userCode,
                          platform |-> "leetcode", providerFailed |-> out.raised,
                          healthyAtCall |-> st0.isHealthy, probed |-> probeDue,
                          raised |-> FALSE,
                          content |-> hintContent(out, nPrev, userCode, "leetcode", "Unknown"),
                          at |-> now, healthyBefore |-> isHealthy,
                          lastCheckBefore |-> lastHealthCheck,
                          probeRaised |-> probeDue /\ probeOut.raised,
                          probeReply |-> IF probeDue THEN probeOut.text ELSE <<>>]
    /\ UNCHANGED <<outsideAI, initPending, clockVars>>

AnalyzeCode ==
    /\ \E userCode \in SampleCodes, platform \in Platforms,
          probeOut \in ProbeOutcomes(probeDue), out \in ProviderOutcomes :
        LET st0 == IF probeDue THEN healthCheck(probeOut)
                   ELSE [isHealthy |-> isHealthy, lastHealthCheck |-> lastHealthCheck]
            st  == afterProviderCall(st0, out)
        IN  /\ isHealthy' = st.isHealthy
            /\ lastHealthCheck' = st.lastHealthCheck
            /\ aiCall' = [op |-> "analysis", nPrev |-> 0, userCode |-> userCode,
                          platform |-> platform, providerFailed |-> out.raised,
                          healthyAtCall |-> st0.isHealthy, probed |-> probeDue,
                          raised |-> FALSE,
                          content |-> analysisContent(out, userCode, platform),
                          at |-> now, healthyBefore |-> isHealthy,
                          lastCheckBefore |-> lastHealthCheck,
                          probeRaised |-> probeDue /\ probeOut.raised,
                          probeReply |-> IF probeDue THEN probeOut.text ELSE <<>>]
    /\ UNCHANGED <<outsideAI, initPending, clockVars>>

\* time passes between calls
AITickSteps == {1, ProbeInterval}

AITick ==
    /\ ticks < MaxTicks
    /\ \E d \in AITickSteps : now' = now + d
    /\ ticks' = ticks + 1
    /\ UNCHANGED <<outsideAI, aiVars>>

----------------------------------------------------------------------------
(* AIService calls step by step: up to the await of the provider's answer, *)
(* the provider settling the promise, the continuation                     *)

IdleWait ==
    [pc |-> "idle", op |-> "none", stage |-> "none", out |-> [raised |-> FALSE, text |-> <<>>]]

\* healthCheck / generateHint / analyzeCode run up to
\* await this.model.generateContent(...): the canary prompt of a probe, of
\* the probe generateHint / analyzeCode make first when one is due, or the
\* prompt itself; the constructor's probe is the first call
AwaitProvider ==
    /\ aiWait.pc = "idle"
    /\ \E op \in {"probe", "hint", "analysis"} :
        /\ initPending => op = "probe"
        /\ aiWait' = [IdleWait EXCEPT !.pc = "waiting", !.op = op,
                                      !.stage = IF op # "probe" /\ probeDue THEN "probe"
                                                ELSE "main"]
    /\ initPending' = FALSE
    /\ UNCHANGED <<isHealthy, lastHealthCheck, aiCall, outsideProvider>>

\* the provider settles the promise: a reply or an error
ProviderSettles ==
    /\ aiWait.pc = "waiting"
    /\ \E out \in ProviderOutcomes :
        aiWait' = [aiWait EXCEPT !.pc = "settled", !.out = out]
    /\ UNCHANGED <<isHealthy, lastHealthCheck, initPending, aiCall, outsideProvider>>

\* the continuation after the await: healthCheck records its verdict and
\* returns (to its caller, which goes on to its own provider call);
\* generateHint / analyzeCode return the reply or the fallback
Resume ==
    /\ aiWait.pc = "settled"
    /\ LET out == aiWait.out
           st  == healthCheck(out)
       IN  IF aiWait.op = "probe" \/ aiWait.stage = "probe"
           THEN /\ isHealthy' = st.isHealthy
                /\ lastHealthCheck' = st.lastHealthCheck
                /\ IF aiWait.op = "probe"
                   THEN /\ aiWait' = IdleWait
                        /\ aiCall' = [NoCall EXCEPT !.op = "probe", !.probed = TRUE,
                                                    !.providerFailed = out.raised,
                                                    !.content = Trim(out.text),
                                                    !.at = now, !.healthyBefore = isHealthy,
                                                    !.lastCheckBefore = lastHealthCheck,
                                                    !.probeRaised = out.raised,
                                                    !.probeReply = out.text]
                   ELSE /\ aiWait' = [IdleWait EXCEPT !.pc = "waiting", !.op = aiWait.op,
                                                      !.stage = "main"]
                        /\ UNCHANGED aiCall
           ELSE /\ aiWait' = IdleWait
                /\ aiCall' = [NoCall EXCEPT
                                !.op = aiWait.op, !.providerFailed = out.raised,
                                !.healthyAtCall = isHealthy, !.at = now,
                                !.content = IF aiWait.op = "hint"
                                            THEN hintContent(out, 0, <<>>, "leetcode", "Unknown")
                                            ELSE analysisContent(out, <<"for">>, "leetcode"),
                                !.userCode = IF aiWait.op = "hint" THEN <<>> ELSE <<"for">>]
                /\ UNCHANGED <<isHealthy, lastHealthCheck>>
    /\ UNCHANGED <<initPending, outsideProvider>>

\* time passes while calls are in progress or between them
WaitTick ==
    /\ ticks < MaxTicks
    /\ \E d \in AITickSteps : now' = now + d
    /\ ticks' = ticks + 1
    /\ UNCHANGED <<outsideAI, aiVars>>

----------------------------------------------------------------------------
(* getFallbackHint as a function of its four arguments: two calls side by  *)
(* side, so that what the result depends on can be stated                  *)

Difficulties == {"Easy", "Unknown"}

FallbackArgs ==
    [n : 0..MaxPrevHints, hasCode : BOOLEAN, platform : Platforms, difficulty : Difficulties]

NoFallbackArgs == [n |-> 0, hasCode |-> FALSE, platform |-> "leetcode", difficulty |-> "Unknown"]

FbIdle == [called |-> FALSE, a |-> NoFallbackArgs, b |-> NoFallbackArgs, ra |-> <<>>, rb |-> <<>>]

CallFallbackHint ==
    /\ ~fb.called
    /\ fb' = [fb EXCEPT !.called = TRUE,
                        !.ra = getFallbackHint(fb.a.n, fb.a.hasCode, fb.a.platform, fb.a.difficulty),
                        !.rb = getFallbackHint(fb.b.n, fb.b.hasCode, fb.b.platform, fb.b.difficulty)]
    /\ UNCHANGED <<clockVars, aiVars, sessVars, authVars>>

----------------------------------------------------------------------------
(* Session ledger: models/Session and the /api/ai routes *)

\* X-Session-ID as sent by a client, or none; generated ids are of another kind
NoSid == [kind |-> "none", id |-> 0]
ClientSids == {[kind |-> "client", id |-> 1]}
randomUUID(n) == [kind |-> "uuid", id |-> n]

Problems == {"Two Sum", "Watermelon"}

\* what AIService hands back to the route: a text, possibly the empty one
Contents == {<<"hint">>, <<>>}

NoDoc == [id |-> 0]

NoFeedback == [rating |-> 0, submittedAt |-> NoDate]

\* Session.create({ sessionId, userId: req.user?._id, ... }): the schema defaults;
\* userId 0 is a session with no owning account
newSessionFor(sid, problem, userId) ==
    [sessionId |-> sid, userId |-> userId, problem |-> problem, hints |-> <<>>,
     codeAnalyses |-> <<>>,
     metrics |-> [startTime |-> now, endTime |-> NoDate, duration |-> 0,
                  hintsRequested |-> 0, analysesRequested |-> 0, completed |-> FALSE],
     status |-> "active", isActive |-> TRUE, createdAt |-> now, feedback |-> NoFeedback]

\* Session.create for an anonymous request
newSession(sid, problem) == newSessionFor(sid, problem, 0)

\* a findOne({ sessionId }) that does not look at isActive
findBySessionId(sid) ==
    LET hit == {i \in 1..Len(sessions) : sessions[i].sessionId = sid}
    IN  IF hit = {} THEN 0 ELSE CHOOSE i \in hit : \A k \in hit : i <= k

\* Session.findOne({ sessionId, isActive: true }): the _id found, 0 if none
findActive(sid) ==
    LET hit == {i \in 1..Len(sessions) : sessions[i].sessionId = sid /\ sessions[i].isActive}
    IN  IF hit = {} THEN 0 ELSE CHOOSE i \in hit : \A k \in hit : i <= k

\* the unique index on sessionId: an insert with a stored sessionId is refused
duplicateKey(sid) == \E i \in 1..Len(sessions) : sessions[i].sessionId = sid

\* a loaded document: the stored fields, its _id, and the array pushes not yet saved
loaded(i) == [id |-> i, doc |-> sessions[i], pushHints |-> <<>>, pushAnalyses |-> <<>>]

\* required: true on hints.content, codeAnalyses.code and codeAnalyses.analysis
validRecord(rec) == rec.content # <<>>

addHintNoRecount(ld, hintData) ==
    [ld EXCEPT !.doc.hints = Append(@, hintData), !.pushHints = Append(@, hintData)]

\* addHint, before save(): push, then recount from the loaded array
addHint(ld, hintData) ==
    LET hints == Append(ld.doc.hints, hintData)
    IN  [ld EXCEPT !.doc.hints = hints,
                   !.doc.metrics.hintsRequested = Len(hints),
                   !.pushHints = Append(@, hintData)]

\* addCodeAnalysis, before save()
addCodeAnalysis(ld, analysisData) ==
    LET analyses == Append(ld.doc.codeAnalyses, analysisData)
    IN  [ld EXCEPT !.doc.codeAnalyses = analyses,
                   !.doc.metrics.analysesRequested = Len(analyses),
                   !.pushAnalyses = Append(@, analysisData)]

\* save() of a loaded document: the pushes go out as $push, the metrics
\* subdocument (markModified('metrics')) as one $set of the loaded values
save(stored, ld) ==
    [stored EXCEPT !.hints = @ \o ld.pushHints,
                   !.codeAnalyses = @ \o ld.pushAnalyses,
                   !.metrics = ld.doc.metrics]

\* findOrCreateSession: [err, id, created, sid] against the stored collection
findOrCreateSession(sid) ==
    LET found == IF sid = NoSid THEN 0 ELSE findActive(sid)
        newId == IF sid = NoSid THEN randomUUID(uuidCount + 1) ELSE sid
    IN  IF found # 0 THEN [err |-> FALSE, id |-> found, created |-> FALSE, sid |-> sid]
        ELSE IF duplicateKey(newId) THEN [err |-> TRUE, id |-> 0, created |-> FALSE, sid |-> newId]
        ELSE [err |-> FALSE, id |-> Len(sessions) + 1, created |-> TRUE, sid |-> newId]

\* a hint / analysis subdocument: timestamp defaults to Date.now
record(op, content) == [kind |-> op, content |-> content, timestamp |-> now]

append(op, ld, content) ==
    IF op = "hint" THEN addHint(ld, record(op, content))
    ELSE addCodeAnalysis(ld, record(op, content))

(* Analytics.recordEvent: one more stored event of the type *)

EventTypes == {"session_started", "hint_requested", "code_analyzed", "error_occurred"}

NoEvents == [t \in EventTypes |-> 0]

\* a recordEvent that stores nothing
recordEventLost(stored, eventType) == stored

\* Analytics.create({ eventType, ... })
recordEvent(stored, eventType) == [stored EXCEPT ![eventType] = @ + 1]

(* One request at a time: POST /generate-hint and POST /analyze-code, whole *)

\* the awaited writes of the handler that can be rejected, other than an
\* invalid record: recording session_started, the save() of the append,
\* req.user.updateStats (a logged-in request), recording the request's event
FaultPoints == {"none", "session_started", "save", "updateStats", "event"}

NotServed ==
    [op |-> "none", sid |-> NoSid, problem |-> "Two Sum", id |-> 0, created |-> FALSE,
     status |-> "none", err |-> "none", fault |-> "none", stages |-> <<>>, content |-> <<>>]

\* the handler from findOrCreateSession to res.json / next(error), for the
\* account in req.user (0 if none), a body whose problemTitle is one of titles
\* and an X-Session-ID header that is one of sids;
\* a rejected await goes to the catch block, which records error_occurred and
\* calls next(error)
Handler(op, faults, userId, titles, sids) ==
    /\ ops < MaxOps
    /\ \E sid \in sids, problem \in titles, content \in Contents,
          fault \in faults :
        LET res   == findOrCreateSession(sid)
            coll  == IF res.created
                     THEN Append(sessions, newSessionFor(res.sid, problem, userId))
                     ELSE sessions
            ld    == [id |-> res.id, doc |-> coll[res.id], pushHints |-> <<>>, pushAnalyses |-> <<>>]
            rec   == record(op, content)
            added == [coll EXCEPT ![res.id] = save(@, append(op, ld, content))]
            began == IF res.created /\ fault # "session_started"
                     THEN recordEvent(events, "session_started") ELSE events
            ask   == [NotServed EXCEPT !.op = op, !.sid = sid, !.problem = problem,
                                       !.fault = fault]
            got   == [ask EXCEPT !.id = res.id, !.created = res.created]
            fail(r, e, st) == [r EXCEPT !.status = "error", !.err = e, !.stages = st]
        IN  /\ Len(coll) <= MaxSessions
            /\ fault = "session_started" => res.created
            /\ uuidCount' = IF res.created /\ sid = NoSid THEN uuidCount + 1 ELSE uuidCount
            /\ IF res.err
               THEN /\ served' = fail(ask, "DuplicateKey", <<>>)
                    /\ sessions' = sessions
                    /\ events' = recordEvent(events, "error_occurred")
               ELSE IF fault = "session_started"
               THEN /\ served' = fail(got, "RecordFailed", <<>>)
                    /\ sessions' = coll
                    /\ events' = recordEvent(began, "error_occurred")
               ELSE IF ~validRecord(rec)
               THEN /\ served' = fail(got, "ValidationError", <<"resolved", "produced">>)
                    /\ sessions' = coll
                    /\ events' = recordEvent(began, "error_occurred")
               ELSE IF fault = "save"
               THEN /\ served' = fail(got, "SaveFailed", <<"resolved", "produced">>)
                    /\ sessions' = coll
                    /\ events' = recordEvent(began, "error_occurred")
               ELSE IF fault = "updateStats"
               THEN /\ served' = fail(got, "StatsFailed", <<"resolved", "produced", "appended">>)
                    /\ sessions' = added
                    /\ events' = recordEvent(began, "error_occurred")
               ELSE IF fault = "event"
               THEN /\ served' = fail(got, "RecordFailed", <<"resolved", "produced", "appended">>)
                    /\ sessions' = added
                    /\ events' = recordEvent(began, "error_occurred")
               ELSE /\ served' = [got EXCEPT !.status = "ok", !.content = content,
                                              !.stages = <<"resolved", "produced", "appended",
                                                           "recorded", "responded">>]
                    /\ sessions' = added
                    /\ events' = recordEvent(began, IF op = "hint" THEN "hint_requested"
                                                    ELSE "code_analyzed")
    /\ ops' = ops + 1

\* the handler reached by a request that carries no account
Route(op, faults) ==
    /\ Handler(op, faults, 0, Problems, ClientSids \cup {NoSid})
    /\ UNCHANGED <<req, outsideSessions>>

\* a request served with every write accepted
ServeRequest(op) == Route(op, {"none"})

\* a request served with any one of its writes rejected
HintRoute == Route("hint", FaultPoints)

AnalysisRoute == Route("analysis", FaultPoints)

HintRequest == ServeRequest("hint")

AnalysisRequest == ServeRequest("analysis")

(* Concurrent requests: each handler runs to its next await *)

Requests == 1..NumRequests

IdleReq ==
    [pc |-> "idle", op |-> "hint", sid |-> NoSid, problem |-> "Two Sum", ld |-> NoDoc,
     created |-> FALSE, content |-> <<>>, status |-> "none", err |-> "none"]

\* the request arrives: extensionAuth has read X-Session-ID, the body is validated
ReqStart(r) ==
    /\ req[r].pc = "idle"
    /\ \E op \in {"hint", "analysis"}, sid \in ClientSids \cup {NoSid}, problem \in Problems :
        req' = [req EXCEPT ![r] = [IdleReq EXCEPT !.pc = "find", !.op = op, !.sid = sid,
                                                  !.problem = problem]]
    /\ UNCHANGED <<sessions, uuidCount, ops, served, events, outsideSessions>>

\* await Session.findOne({ sessionId, isActive: true })
ReqFind(r) ==
    /\ req[r].pc = "find"
    /\ LET found == IF req[r].sid = NoSid THEN 0 ELSE findActive(req[r].sid)
       IN  req' = [req EXCEPT ![r].pc = IF found = 0 THEN "create" ELSE "generate",
                              ![r].ld = IF found = 0 THEN NoDoc ELSE loaded(found)]
    /\ UNCHANGED <<sessions, uuidCount, ops, served, events, outsideSessions>>

\* await Session.create({ sessionId: sessionId || randomUUID(), problem, ... })
ReqCreate(r) ==
    /\ req[r].pc = "create"
    /\ LET newId == IF req[r].sid = NoSid THEN randomUUID(uuidCount + 1) ELSE req[r].sid
       IN  IF duplicateKey(newId)
           THEN /\ req' = [req EXCEPT ![r].pc = "done", ![r].status = "error",
                                      ![r].err = "DuplicateKey"]
                /\ events' = recordEvent(events, "error_occurred")
                /\ UNCHANGED <<sessions, uuidCount>>
           ELSE /\ Len(sessions) < MaxSessions
                /\ sessions' = Append(sessions, newSession(newId, req[r].problem))
                /\ uuidCount' = IF req[r].sid = NoSid THEN uuidCount + 1 ELSE uuidCount
                /\ events' = recordEvent(events, "session_started")
                /\ req' = [req EXCEPT ![r].pc = "generate", ![r].created = TRUE,
                                      ![r].ld = [id |-> Len(sessions) + 1,
                                                 doc |-> newSession(newId, req[r].problem),
                                                 pushHints |-> <<>>, pushAnalyses |-> <<>>]]
    /\ UNCHANGED <<ops, served, outsideSessions>>

\* await AIService.generateHint(...) / analyzeCode(...)
ReqGenerate(r) ==
    /\ req[r].pc = "generate"
    /\ \E content \in Contents :
        req' = [req EXCEPT ![r].pc = "append", ![r].content = content]
    /\ UNCHANGED <<sessions, uuidCount, ops, served, events, outsideSessions>>

\* await session.addHint(...) / session.addCodeAnalysis(...): a refused save
\* goes to the catch block and next(error)
ReqAppend(r) ==
    /\ req[r].pc = "append"
    /\ LET rec == record(req[r].op, req[r].content)
           ld  == append(req[r].op, req[r].ld, req[r].content)
       IN  IF validRecord(rec)
           THEN /\ sessions' = [sessions EXCEPT ![ld.id] = save(@, ld)]
                /\ events' = recordEvent(events, IF req[r].op = "hint" THEN "hint_requested"
                                                 ELSE "code_analyzed")
                /\ req' = [req EXCEPT ![r].pc = "done", ![r].status = "ok",
                                      ![r].ld = [ld EXCEPT !.pushHints = <<>>,
                                                           !.pushAnalyses = <<>>]]
           ELSE /\ req' = [req EXCEPT ![r].pc = "done", ![r].status = "error",
                                      ![r].err = "ValidationError"]
                /\ events' = recordEvent(events, "error_occurred")
                /\ UNCHANGED sessions
    /\ UNCHANGED <<uuidCount, ops, served, outsideSessions>>

----------------------------------------------------------------------------
(* Session lifecycle: endSession, addFeedback and cleanupAbandonedSessions, *)
(* called from outside the request handlers on a document loaded earlier    *)

MsPerSecond == 1000
SweepWindow == 7200000

Ratings == {5}

IdleLife ==
    [pc |-> "idle", op |-> "none", ld |-> NoDoc, completed |-> FALSE, at |-> NoDate, n |-> 0]

\* Math.round(ms / 1000)
roundSeconds(ms) == (2 * ms + MsPerSecond) \div (2 * MsPerSecond)

\* the virtual sessionDuration
sessionDuration(doc) ==
    IF doc.metrics.endTime # NoDate
    THEN roundSeconds(doc.metrics.endTime - doc.metrics.startTime)
    ELSE roundSeconds(now - doc.metrics.startTime)

\* an endSession that assigns status and leaves isActive as loaded
endSessionStatusOnly(doc, completed) ==
    LET ended == [doc EXCEPT !.metrics.endTime = now]
    IN  [ended EXCEPT !.metrics.duration = sessionDuration(ended),
                      !.metrics.completed = completed,
                      !.status = IF completed THEN "completed" ELSE "abandoned"]

\* endSession, before save(): the loaded document with its fields assigned
endSession(doc, completed) ==
    LET ended == [doc EXCEPT !.metrics.endTime = now]
    IN  [ended EXCEPT !.metrics.duration = sessionDuration(ended),
                      !.metrics.completed = completed,
                      !.status = IF completed THEN "completed" ELSE "abandoned",
                      !.isActive = FALSE]

\* addFeedback, before save()
addFeedback(doc, rating) == [doc EXCEPT !.feedback = [rating |-> rating, submittedAt |-> now]]

\* save() sends a $set of the paths whose value differs from the loaded one
modified(storedV, loadedV, newV) == IF newV # loadedV THEN newV ELSE storedV

\* save() that writes the whole loaded document back
saveWholeDocument(stored, was, is) == is

saveAssigned(stored, was, is) ==
    [stored EXCEPT
        !.metrics.endTime = modified(@, was.metrics.endTime, is.metrics.endTime),
        !.metrics.duration = modified(@, was.metrics.duration, is.metrics.duration),
        !.metrics.completed = modified(@, was.metrics.completed, is.metrics.completed),
        !.status = modified(@, was.status, is.status),
        !.isActive = modified(@, was.isActive, is.isActive),
        !.feedback = modified(@, was.feedback, is.feedback)]

\* updateMany({status: 'active', createdAt: {$lt: cutoffTime}}, {status: 'abandoned', isActive: false})
cleanupAbandonedSessions(coll) ==
    LET cutoffTime == now - SweepWindow
    IN  [i \in 1..Len(coll) |->
            IF coll[i].status = "active" /\ coll[i].createdAt < cutoffTime
            THEN [coll[i] EXCEPT !.status = "abandoned", !.isActive = FALSE]
            ELSE coll[i]]

\* the caller loads the session it is about to end or to attach feedback to
LifeLoad ==
    /\ life.pc = "idle" /\ life.n < MaxLifeOps
    /\ \E i \in 1..Len(sessions), op \in {"end", "feedback"}, completed \in BOOLEAN :
        /\ op = "feedback" => ~completed
        /\ life' = [IdleLife EXCEPT !.pc = "loaded", !.op = op, !.ld = loaded(i),
                                    !.completed = completed, !.n = life.n + 1]
    /\ UNCHANGED <<sessions, clockVars, outsideLife>>

\* session.endSession(completed)
EndSession ==
    /\ life.pc = "loaded" /\ life.op = "end"
    /\ LET is == endSession(life.ld.doc, life.completed)
       IN  /\ sessions' = [sessions EXCEPT ![life.ld.id] = saveAssigned(@, life.ld.doc, is)]
           /\ life' = [IdleLife EXCEPT !.op = "end", !.n = life.n]
    /\ UNCHANGED <<clockVars, outsideLife>>

\* session.addFeedback(feedbackData)
AddFeedback ==
    /\ life.pc = "loaded" /\ life.op = "feedback"
    /\ \E rating \in Ratings :
        LET is == addFeedback(life.ld.doc, rating)
        IN  /\ sessions' = [sessions EXCEPT ![life.ld.id] = saveAssigned(@, life.ld.doc, is)]
            /\ life' = [IdleLife EXCEPT !.op = "feedback", !.n = life.n]
    /\ UNCHANGED <<clockVars, outsideLife>>

\* Session.cleanupAbandonedSessions(), by the external scheduler
Sweep ==
    /\ life.pc = "idle" /\ life.n < MaxLifeOps
    /\ sessions' = cleanupAbandonedSessions(sessions)
    /\ life' = [IdleLife EXCEPT !.op = "sweep", !.at = now, !.n = life.n + 1]
    /\ UNCHANGED <<clockVars, outsideLife>>

\* time passes between operations
LifeTickSteps == {SweepWindow \div 2 + MsPerSecond}

LifeTick ==
    /\ ticks < MaxTicks
    /\ \E d \in LifeTickSteps : now' = now + d
    /\ ticks' = ticks + 1
    /\ UNCHANGED <<sessVars, fb, aiVars, authVars>>

----------------------------------------------------------------------------
(* Credential guard: models/User, middleware/auth and the /api/auth routes *)

maxLoginAttempts == 5
lockoutTime == 1800000
MsPerMinute == 60000
jwtExpiresIn == 604800

Emails == {"alice@x.com"}
Usernames == {"alice"}
Passwords == {"password123", "hunter22"}
NoField == "(absent)"

\* bcrypt.hash / bcrypt.compare
bcryptHash(password) == [alg |-> "bcrypt", of |-> password]
comparePassword(candidate, stored) == stored = bcryptHash(candidate)

\* pre('save') that hashes the password and leaves passwordChangedAt alone
preSaveNoStamp(u, password) == [u EXCEPT !.password = bcryptHash(password)]

\* pre('save') of a document whose password was assigned: the hash replaces
\* it and passwordChangedAt is stamped
preSave(u, password) ==
    [u EXCEPT !.password = bcryptHash(password), !.passwordChangedAt = now]

\* User.create: pre('save') hashes the password and stamps passwordChangedAt
newUser(email, username, password) ==
    [email |-> email, username |-> username, password |-> bcryptHash(password),
     loginAttempts |-> 0, lockUntil |-> NoDate, passwordChangedAt |-> now,
     isActive |-> TRUE]

\* User.findOne({ $or: [{ email }, { username }] }): the _id found, 0 if none
findUser(email, username) ==
    LET hit == {i \in 1..Len(users) : users[i].email = email \/ users[i].username = username}
    IN  IF hit = {} THEN 0 ELSE CHOOSE i \in hit : \A k \in hit : i <= k

\* User.findByEmailOrUsername(identifier)
findByEmailOrUsername(identifier) == findUser(identifier, identifier)

\* the virtual security.isLocked
isLocked(u) == u.lockUntil # NoDate /\ u.lockUntil > now

\* Math.ceil((lockUntil - Date.now()) / 60000)
lockTimeLeft(u) ==
    LET ms == u.lockUntil - now
    IN  IF ms <= 0 THEN 0 ELSE (ms + MsPerMinute - 1) \div MsPerMinute

\* incrementLoginAttempts that locks one failure late
incrementLoginAttemptsLate(stored, u) ==
    IF u.lockUntil # NoDate /\ u.lockUntil < now
    THEN [stored EXCEPT !.lockUntil = NoDate, !.loginAttempts = 1]
    ELSE IF u.loginAttempts + 1 > maxLoginAttempts /\ ~isLocked(u)
         THEN [stored EXCEPT !.loginAttempts = @ + 1, !.lockUntil = now + lockoutTime]
         ELSE [stored EXCEPT !.loginAttempts = @ + 1]

\* incrementLoginAttempts that sets the lock again on every failure at the threshold
incrementLoginAttemptsRelock(stored, u) ==
    IF u.lockUntil # NoDate /\ u.lockUntil < now
    THEN [stored EXCEPT !.lockUntil = NoDate, !.loginAttempts = 1]
    ELSE IF u.loginAttempts + 1 >= maxLoginAttempts
         THEN [stored EXCEPT !.loginAttempts = @ + 1, !.lockUntil = now + lockoutTime]
         ELSE [stored EXCEPT !.loginAttempts = @ + 1]

\* incrementLoginAttempts: the update sent for the loaded document u,
\* applied to the stored document
incrementLoginAttempts(stored, u) ==
    IF u.lockUntil # NoDate /\ u.lockUntil < now
    THEN [stored EXCEPT !.lockUntil = NoDate, !.loginAttempts = 1]
    ELSE IF u.loginAttempts + 1 >= maxLoginAttempts /\ ~isLocked(u)
         THEN [stored EXCEPT !.loginAttempts = @ + 1, !.lockUntil = now + lockoutTime]
         ELSE [stored EXCEPT !.loginAttempts = @ + 1]

\* resetLoginAttempts that clears the lock only
resetLockOnly(stored) == [stored EXCEPT !.lockUntil = NoDate]

\* resetLoginAttempts: $unset of both fields (an unset counter reads as its default 0)
resetLoginAttempts(stored) == [stored EXCEPT !.loginAttempts = 0, !.lockUntil = NoDate]

\* signToken: jwt.sign({ id }) stamps iat in whole seconds; issuedAt is the
\* instant itself, which the token does not carry
signToken(id) ==
    [id |-> id, iat |-> now \div MsPerSecond, signed |-> TRUE, issuedAt |-> now]

NoToken == [id |-> 0, iat |-> 0, signed |-> FALSE, issuedAt |-> 0]
ForgedToken == [id |-> 1, iat |-> 0, signed |-> FALSE, issuedAt |-> 0]

\* jwt.verify: the signature and the expiry
jwtVerify(token) ==
    IF ~token.signed THEN "Invalid"
    ELSE IF now \div MsPerSecond >= token.iat + jwtExpiresIn THEN "Expired"
    ELSE "ok"

\* verifyToken, step 5: parseInt(passwordChangedAt.getTime() / 1000, 10) against iat
changedAfter(token, u) ==
    /\ u.passwordChangedAt # NoDate
    /\ token.iat < u.passwordChangedAt \div MsPerSecond

\* verifyToken: the error it passes to next(), "none" when it sets req.user
verifyToken(token) ==
    IF token = NoToken THEN "NotLoggedIn"
    ELSE IF jwtVerify(token) # "ok" THEN jwtVerify(token)
    ELSE IF token.id > Len(users) THEN "NoUser"
    ELSE IF ~users[token.id].isActive THEN "Inactive"
    ELSE IF changedAfter(token, users[token.id]) THEN "Superseded"
    ELSE "none"

\* an optionalAuth that does not test currentUser.isActive
optionalAuthAnyAccount(token) ==
    IF token = NoToken THEN 0
    ELSE IF jwtVerify(token) # "ok" THEN 0
    ELSE IF token.id > Len(users) THEN 0
    ELSE token.id

\* optionalAuth: the _id it puts in req.user, 0 when it leaves the request anonymous
optionalAuth(token) ==
    IF token = NoToken THEN 0
    ELSE IF jwtVerify(token) # "ok" THEN 0
    ELSE IF token.id > Len(users) THEN 0
    ELSE IF users[token.id].isActive THEN token.id
    ELSE 0

\* checkAccountLock: reads email / username of the body, not identifier
checkAccountLock(body) ==
    IF body.email = NoField /\ body.username = NoField THEN FALSE
    ELSE LET id == findByEmailOrUsername(IF body.email # NoField THEN body.email
                                         ELSE body.username)
         IN  id # 0 /\ isLocked(users[id])

NoRes ==
    [op |-> "none", err |-> "none", user |-> 0, token |-> NoToken, presented |-> NoToken,
     minutesLeft |-> 0, lockedBefore |-> FALSE, lockUntilBefore |-> NoDate,
     attemptsBefore |-> 0, at |-> NoDate,
     compared |-> NoField, assigned |-> NoField]

\* the client keeps a token it is sent, as long as it has room
keep(token) == IF Cardinality(tokens) < MaxTokens THEN tokens \cup {token} ELSE tokens

\* POST /api/auth/register
Register ==
    /\ \E email \in Emails, username \in Usernames, password \in Passwords :
        IF findUser(email, username) # 0
        THEN /\ authRes' = [NoRes EXCEPT !.op = "register", !.err = "DuplicateIdentity"]
             /\ UNCHANGED <<users, tokens>>
        ELSE /\ Len(users) < MaxUsers
             /\ users' = Append(users, newUser(email, username, password))
             /\ LET token == signToken(Len(users) + 1)
                IN  /\ tokens' = keep(token)
                    /\ authRes' = [NoRes EXCEPT !.op = "register", !.user = Len(users) + 1,
                                                !.token = token]
    /\ UNCHANGED <<clockVars, outsideAuth>>

LoginBodies ==
    [identifier : Emails \cup Usernames, password : Passwords,
     email : {NoField}, username : {NoField}]
        \cup [identifier : Emails, password : Passwords, email : Emails, username : {NoField}]

\* POST /api/auth/login: checkAccountLock, then the handler
Login ==
    /\ \E body \in LoginBodies :
        LET id  == findByEmailOrUsername(body.identifier)
            u   == users[id]
            ask == IF id = 0 THEN [NoRes EXCEPT !.op = "login", !.at = now]
                   ELSE [NoRes EXCEPT !.op = "login", !.user = id, !.at = now,
                                      !.lockedBefore = isLocked(u),
                                      !.lockUntilBefore = u.lockUntil,
                                      !.attemptsBefore = u.loginAttempts]
        IN  IF checkAccountLock(body)
            THEN /\ authRes' = [ask EXCEPT !.err = "AccountLocked",
                                           !.minutesLeft = lockTimeLeft(u)]
                 /\ UNCHANGED <<users, tokens>>
            ELSE IF id = 0
            THEN /\ authRes' = [ask EXCEPT !.err = "InvalidCredentials"]
                 /\ UNCHANGED <<users, tokens>>
            ELSE IF ~comparePassword(body.password, u.password)
            THEN /\ u.loginAttempts < maxLoginAttempts + MaxExtraAttempts
                 /\ users' = [users EXCEPT ![id] = incrementLoginAttempts(@, u)]
                 /\ authRes' = [ask EXCEPT !.err = "InvalidCredentials",
                                           !.compared = body.password]
                 /\ UNCHANGED tokens
            ELSE IF ~u.isActive
            THEN /\ authRes' = [ask EXCEPT !.err = "AccountInactive",
                                           !.compared = body.password]
                 /\ UNCHANGED <<users, tokens>>
            ELSE /\ users' = IF u.loginAttempts > 0
                             THEN [users EXCEPT ![id] = resetLoginAttempts(@)]
                             ELSE users
                 /\ tokens' = keep(signToken(id))
                 /\ authRes' = [ask EXCEPT !.token = signToken(id),
                                           !.compared = body.password]
    /\ UNCHANGED <<clockVars, outsideAuth>>

Presentable == tokens \cup {ForgedToken, NoToken}

\* any route behind authMiddleware.required (GET /api/auth/me, /api/users/...)
VerifyRequest ==
    /\ \E token \in Presentable :
        LET err == verifyToken(token)
        IN  authRes' = [NoRes EXCEPT !.op = "verify", !.presented = token, !.err = err,
                                     !.user = IF err = "none" THEN token.id ELSE 0]
    /\ UNCHANGED <<users, tokens, clockVars, outsideAuth>>

\* any /api/ai route: app.use('/api/ai', authMiddleware.optional, aiRoutes)
OptionalRequest ==
    /\ \E token \in Presentable :
        authRes' = [NoRes EXCEPT !.op = "optional", !.presented = token,
                                 !.user = optionalAuth(token)]
    /\ UNCHANGED <<users, tokens, clockVars, outsideAuth>>

(* The /api/ai chain: authMiddleware.optional, extensionAuth, the route's
   validation rules and validateRequest, then the route handler *)

\* isIn([...]) of the validation rules
AcceptedPlatforms == {"leetcode", "codeforces", "codechef"}

NoBody == [problemTitle |-> "", platform |-> "", userCode |-> ""]

FullBody == [problemTitle |-> "Two Sum", platform |-> "leetcode", userCode |-> "x"]

\* request bodies: problemTitle, platform and userCode as sent; a full body,
\* and bodies with one field empty or out of the list
Bodies ==
    {FullBody, [FullBody EXCEPT !.problemTitle = ""],
     [FullBody EXCEPT !.platform = "hackerrank"], [FullBody EXCEPT !.userCode = ""]}

NoFront ==
    [op |-> "none", presented |-> NoToken, tokenCheck |-> "none", user |-> 0,
     version |-> FALSE, body |-> NoBody, err |-> "none", reached |-> FALSE,
     session |-> 0, created |-> FALSE]

\* extensionAuth: the error it passes to next(), "none" when it calls next()
extensionAuth(version) == IF ~version THEN "ExtensionVersionRequired" ELSE "none"

\* generateHintValidation / analyzeCodeValidation with validateRequest
validateRequest(op, body) ==
    IF \/ body.problemTitle = ""
       \/ body.platform \notin AcceptedPlatforms
       \/ (op = "analysis" /\ body.userCode = "")
    THEN "ValidationFailed" ELSE "none"

\* POST /api/ai/generate-hint and /analyze-code from the first middleware on
FrontRequest(op) ==
    /\ ops < MaxFrontOps
    /\ \E token \in Presentable, version \in BOOLEAN, body \in Bodies :
        LET user == optionalAuth(token)
            ask  == [NoFront EXCEPT !.op = op, !.presented = token,
                                    !.tokenCheck = verifyToken(token), !.user = user,
                                    !.version = version, !.body = body]
            e1   == extensionAuth(version)
            e2   == validateRequest(op, body)
        IN  IF e1 # "none"
            THEN /\ front' = [ask EXCEPT !.err = e1]
                 /\ UNCHANGED <<sessions, uuidCount, ops, served, events>>
            ELSE IF e2 # "none"
            THEN /\ front' = [ask EXCEPT !.err = e2]
                 /\ UNCHANGED <<sessions, uuidCount, ops, served, events>>
            ELSE /\ Handler(op, {"none"}, user, {body.problemTitle}, ClientSids \cup {NoSid})
                 /\ front' = [ask EXCEPT !.reached = TRUE, !.err = served'.err,
                                         !.session = served'.id,
                                         !.created = served'.created]
    /\ UNCHANGED <<req, life, client, prompt, fb, aiVars, clockVars, authVars>>

FrontHint == FrontRequest("hint")

FrontAnalysis == FrontRequest("analysis")

\* time passes by the lifetime of a token
TokenLifetime ==
    /\ ticks < MaxTicks
    /\ \E token \in tokens : jwtVerify(token) = "ok"
    /\ now' = now + jwtExpiresIn * MsPerSecond
    /\ ticks' = ticks + 1
    /\ UNCHANGED <<authVars, outsideAuth>>

(* AIService.buildHintPrompt and buildCodeAnalysisPrompt: a string is its
   length in characters; the prompt is the lengths of the parts of it that
   come from the request *)

StatementBudget == 800
CodeBudget == 1500
statementMax == 10000
userCodeMax == 50000

\* String.prototype.substring(0, end): the length of what it returns
substring(len, end) == Min(len, end)

TitleLengths == {1, 40}
StatementLengths == {0, 1, StatementBudget, StatementBudget + 1, statementMax}
CodeLengths == {0, 1, CodeBudget, CodeBudget + 1, userCodeMax}

\* previousHints: the lengths of the hints the request carries
HintLists == {<<>>, <<90>>, <<90, 120>>}

RECURSIVE Sum(_)
Sum(s) == IF s = <<>> THEN 0 ELSE Head(s) + Sum(Tail(s))

NoPrompt ==
    [op |-> "none", statementIn |-> 0, codeIn |-> 0,
     title |-> 0, statement |-> 0, hints |-> 0, code |-> 0]

\* buildHintPrompt: ${problemTitle}, problemStatement.substring(0, 800),
\* the previous hints joined, userCode.substring(0, 1500)
buildHintPrompt(title, statement, previousHints, userCode) ==
    [NoPrompt EXCEPT !.op = "hint", !.statementIn = statement, !.codeIn = userCode,
                     !.title = title,
                     !.statement = IF statement > 0 THEN substring(statement, StatementBudget)
                                   ELSE 0,
                     !.hints = Sum(previousHints),
                     !.code = IF userCode > 0 THEN substring(userCode, CodeBudget) ELSE 0]

\* buildCodeAnalysisPrompt: ${problemTitle}, problemStatement.substring(0, 800), ${userCode}
buildCodeAnalysisPrompt(title, statement, userCode) ==
    [NoPrompt EXCEPT !.op = "analysis", !.statementIn = statement, !.codeIn = userCode,
                     !.title = title,
                     !.statement = IF statement > 0 THEN substring(statement, StatementBudget)
                                   ELSE 0,
                     !.code = userCode]

\* generateHint builds its prompt from a validated request
BuildHintPrompt ==
    /\ \E title \in TitleLengths, statement \in StatementLengths,
          previousHints \in HintLists, userCode \in CodeLengths :
        prompt' = buildHintPrompt(title, statement, previousHints, userCode)
    /\ UNCHANGED <<fb, aiVars, clockVars, authVars, sessions, uuidCount, req, ops, served,
                   life, events, front, client>>

\* analyzeCode builds its prompt from a validated request (userCode notEmpty)
BuildAnalysisPrompt ==
    /\ \E title \in TitleLengths, statement \in StatementLengths,
          userCode \in CodeLengths \ {0} :
        prompt' = buildCodeAnalysisPrompt(title, statement, userCode)
    /\ UNCHANGED <<fb, aiVars, clockVars, authVars, sessions, uuidCount, req, ops, served,
                   life, events, front, client>>

(* The extension: the background worker's message listener, its fetches to
   the backend, and the popup *)

\* generateSessionId(): 'cp-mentor-' + Date.now() + '-' + random, the n-th one generated
generateSessionId(n) == [kind |-> "client", id |-> n]

\* how a fetch ends: the backend is unreachable (fetch rejects), a layer
\* before the route answers with an error status, or the route runs
FetchOutcomes == {"unreachable", "refused", "routed"}

\* the message of the error caught in generateHint / analyzeCode / healthCheck
errorMessage(net) ==
    IF net = "unreachable" THEN <<"Failed", "to", "fetch">>
    ELSE <<"HTTP", "error!", "status">>

\* userCode as the content script sends it: its length and what it contains
ClientCodes ==
    {[length |-> 0, for |-> FALSE, map |-> FALSE]}
        \cup [length : {49, 50}, for : BOOLEAN, map : BOOLEAN]

ShortCodeLength == 50

\* a catch block that hands back no text
noFallback(message) == <<>>

\* generateHint's catch block
hintFallback(message) ==
    IF Includes(message, <<"fetch">>)
    THEN <<"trouble", "connecting", "to", "the", "mentoring", "service">>
    ELSE <<"trouble", "generating", "a", "hint">>

\* analyzeCode's catch block
analysisFallback(message, userCode) ==
    IF Includes(message, <<"fetch">>)
    THEN <<"trouble", "connecting", "to", "the", "code", "analysis", "service">>
    ELSE <<"Quick Code Review">>
            \o (IF userCode.length < ShortCodeLength THEN <<"quite short">> ELSE <<>>)
            \o (IF userCode.length > 0 /\ userCode.for THEN <<"nested loops">> ELSE <<>>)
            \o (IF userCode.length > 0 /\ userCode.map THEN <<"hash maps">> ELSE <<>>)
            \o <<"Next Steps">>

NoResponse == [success |-> FALSE, text |-> <<>>, status |-> "none", error |-> <<>>]

NoClient ==
    [sids |-> 0, type |-> "none", net |-> "none", responses |-> 0, response |-> NoResponse,
     sid |-> NoSid, served |-> 0, online |-> "unknown", reported |-> FALSE]

\* GENERATE_HINT / ANALYZE_CODE: the listener calls generateHint / analyzeCode,
\* which fetches the route with a generated X-Session-ID, and sends its response
ClientRequest(op) ==
    /\ client.sids < MaxClientIds
    /\ \E net \in FetchOutcomes, userCode \in ClientCodes :
        LET sid  == generateSessionId(client.sids + 1)
            ask  == [client EXCEPT !.sids = @ + 1, !.sid = sid, !.net = net,
                                   !.type = IF op = "hint" THEN "GENERATE_HINT"
                                            ELSE "ANALYZE_CODE",
                                   !.responses = 1]
            fallback(n) == IF op = "hint" THEN hintFallback(errorMessage(n))
                           ELSE analysisFallback(errorMessage(n), userCode)
            answer(text) == [NoResponse EXCEPT !.success = TRUE, !.text = text]
        IN  IF net # "routed"
            THEN /\ client' = [ask EXCEPT !.response = answer(fallback(net))]
                 /\ UNCHANGED <<sessions, uuidCount, ops, served, events>>
            ELSE /\ Handler(op, {"none"}, 0, {"Two Sum"}, {sid})
                 /\ client' = IF served'.status = "ok"
                              THEN [ask EXCEPT !.response = answer(served'.content),
                                               !.served = IF op = "hint" THEN @ + 1 ELSE @]
                              ELSE [ask EXCEPT !.response = answer(fallback("refused"))]
    /\ UNCHANGED <<req, life, front, prompt, fb, aiVars, clockVars, authVars>>

ClientHint == ClientRequest("hint")

ClientAnalysis == ClientRequest("analysis")

\* healthCheck() of the background worker: what it resolves to
workerHealthCheck(net) ==
    IF net = "routed" THEN [rejected |-> FALSE, status |-> "ok", error |-> <<>>]
    ELSE [rejected |-> FALSE, status |-> "error", error |-> errorMessage(net)]

\* HEALTH_CHECK from the popup or checkBackendHealth: lastError is set when the
\* message does not reach the worker; otherwise the listener answers
\* { success: true, data } when healthCheck() resolves, { success: false } when it rejects
ClientHealth ==
    /\ \E lastError \in BOOLEAN, net \in FetchOutcomes :
        LET res == workerHealthCheck(net)
            ask == [client EXCEPT !.type = "HEALTH_CHECK", !.sid = NoSid, !.reported = TRUE]
        IN  IF lastError
            THEN /\ client' = [ask EXCEPT !.net = "none", !.responses = 0,
                                          !.response = NoResponse, !.online = "offline"]
                 /\ UNCHANGED <<isHealthy, lastHealthCheck, aiCall>>
            ELSE /\ client' = [ask EXCEPT !.net = net, !.responses = 1,
                                   !.response = [NoResponse EXCEPT !.success = ~res.rejected,
                                                                   !.status = res.status,
                                                                   !.error = res.error],
                                   !.online = IF ~res.rejected THEN "online" ELSE "offline"]
                 /\ IF net = "routed" THEN healthRoute
                    ELSE UNCHANGED <<isHealthy, lastHealthCheck, aiCall>>
    /\ UNCHANGED <<initPending, aiWait, fb, sessions, uuidCount, req, ops, served, life,
                   events, front, prompt, clockVars, authVars>>

\* PUT /api/auth/password: verifyToken, then compare, then save() with its pre('save')
ChangePassword ==
    /\ \E token \in Presentable, currentPassword \in Passwords, newPassword \in Passwords :
        LET err == verifyToken(token)
            ask == [NoRes EXCEPT !.op = "password", !.presented = token]
        IN  IF err # "none"
            THEN /\ authRes' = [ask EXCEPT !.err = err]
                 /\ UNCHANGED users
            ELSE IF ~comparePassword(currentPassword, users[token.id].password)
            THEN /\ authRes' = [ask EXCEPT !.err = "InvalidCredentials", !.user = token.id,
                                           !.compared = currentPassword]
                 /\ UNCHANGED users
            ELSE /\ users' = [users EXCEPT ![token.id] = preSave(@, newPassword)]
                 /\ authRes' = [ask EXCEPT !.user = token.id, !.compared = currentPassword,
                                           !.assigned = newPassword]
    /\ UNCHANGED <<tokens, clockVars, outsideAuth>>

\* `deleted_${Date.now()}_${value}`
deletedName(value) == "deleted_" \o ToString(now) \o "_" \o value

\* a removal that deactivates the account and keeps its email and username
deactivateOnly(u) == [u EXCEPT !.isActive = FALSE]

\* User.findByIdAndUpdate(req.user._id, { isActive: false, email: ..., username: ... })
deactivate(u) ==
    [u EXCEPT !.isActive = FALSE, !.email = deletedName(u.email),
              !.username = deletedName(u.username)]

\* DELETE /api/auth/account: verifyToken, then the update
DeleteAccount ==
    /\ \E token \in Presentable :
        LET err == verifyToken(token)
            ask == [NoRes EXCEPT !.op = "delete", !.presented = token, !.err = err]
        IN  IF err # "none"
            THEN /\ authRes' = ask
                 /\ UNCHANGED users
            ELSE /\ users' = [users EXCEPT ![token.id] = deactivate(@)]
                 /\ authRes' = [ask EXCEPT !.user = token.id]
    /\ UNCHANGED <<tokens, clockVars, outsideAuth>>

\* time passes between requests
AuthTickSteps == {1, MsPerSecond, lockoutTime}

AuthTick ==
    /\ ticks < MaxTicks
    /\ \E d \in AuthTickSteps : now' = now + d
    /\ ticks' = ticks + 1
    /\ UNCHANGED <<authVars, outsideAuth>>

----------------------------------------------------------------------------
(* Concurrent /api/auth requests: each handler runs to its next await *)

AuthRequests == 1..NumAuthRequests

NoUser == [id |-> 0]

IdleAuth ==
    [pc |-> "idle", op |-> "none", body |-> [identifier |-> NoField], id |-> 0,
     ld |-> NoUser, err |-> "none", n |-> 0]

\* POST /api/auth/login up to its first write: checkAccountLock, then
\* await User.findByEmailOrUsername(identifier) and await comparePassword;
\* a request that writes nothing is answered here
LoginFind(p) ==
    /\ authReq[p].pc = "idle"
    /\ authReq[p].n < MaxLogins
    /\ \E body \in LoginBodies :
        LET id   == findByEmailOrUsername(body.identifier)
            u    == users[id]
            ask  == [IdleAuth EXCEPT !.op = "login", !.body = body, !.id = id,
                                     !.n = authReq[p].n + 1]
            done == [ask EXCEPT !.pc = "done"]
        IN  IF checkAccountLock(body)
            THEN authReq' = [authReq EXCEPT ![p] = [done EXCEPT !.err = "AccountLocked"]]
            ELSE IF id = 0
            THEN authReq' = [authReq EXCEPT ![p] = [done EXCEPT !.err = "InvalidCredentials"]]
            ELSE IF ~comparePassword(body.password, u.password)
            THEN authReq' = [authReq EXCEPT ![p] = [ask EXCEPT !.pc = "increment", !.ld = u]]
            ELSE IF ~u.isActive
            THEN authReq' = [authReq EXCEPT ![p] = [done EXCEPT !.err = "AccountInactive"]]
            ELSE authReq' = [authReq EXCEPT ![p] = [ask EXCEPT !.pc = "reset", !.ld = u]]
    /\ UNCHANGED <<users, tokens, outsideUsers>>

\* await user.incrementLoginAttempts(): the update computed from the loaded
\* document, then next(new AppError(..., 401))
LoginIncrement(p) ==
    /\ authReq[p].pc = "increment"
    /\ users' = [users EXCEPT ![authReq[p].id] = incrementLoginAttempts(@, authReq[p].ld)]
    /\ authReq' = [authReq EXCEPT ![p].pc = "done", ![p].err = "InvalidCredentials"]
    /\ UNCHANGED <<tokens, outsideUsers>>

\* if (user.security.loginAttempts > 0) await user.resetLoginAttempts(),
\* then createSendToken
LoginReset(p) ==
    /\ authReq[p].pc = "reset"
    /\ users' = IF authReq[p].ld.loginAttempts > 0
                THEN [users EXCEPT ![authReq[p].id] = resetLoginAttempts(@)]
                ELSE users
    /\ tokens' = keep(signToken(authReq[p].id))
    /\ authReq' = [authReq EXCEPT ![p].pc = "done"]
    /\ UNCHANGED outsideUsers

\* the response is sent; the client may ask again
AuthDone(p) ==
    /\ authReq[p].pc = "done"
    /\ authReq' = [authReq EXCEPT ![p] = [IdleAuth EXCEPT !.n = authReq[p].n]]
    /\ UNCHANGED <<users, tokens, outsideUsers>>

RegEmails == Emails \cup {"bob@x.com"}
RegUsernames == Usernames \cup {"bob"}

\* a User collection without its unique indexes
noUniqueIndex(email, username) == FALSE

\* the unique indexes on email and on username (unique: true in the schema):
\* an insert of a document with either value already stored is refused
uniqueIndex(email, username) ==
    \E i \in 1..Len(users) : users[i].email = email \/ users[i].username = username

\* POST /api/auth/register up to its write:
\* await User.findOne({ $or: [{ email }, { username }] })
RegFind(p) ==
    /\ authReq[p].pc = "idle"
    /\ authReq[p].n < MaxRegisters
    /\ \E email \in RegEmails, username \in RegUsernames, password \in Passwords :
        LET ask == [IdleAuth EXCEPT !.op = "register", !.n = authReq[p].n + 1,
                                    !.body = [email |-> email, username |-> username,
                                              password |-> password]]
        IN  IF findUser(email, username) # 0
            THEN authReq' = [authReq EXCEPT ![p] = [ask EXCEPT !.pc = "done",
                                                              !.err = "DuplicateIdentity"]]
            ELSE authReq' = [authReq EXCEPT ![p] = [ask EXCEPT !.pc = "create"]]
    /\ UNCHANGED <<users, tokens, outsideUsers>>

\* await User.create({ email, username, password, ... }), then createSendToken;
\* an insert the unique indexes refuse goes to next(error)
RegCreate(p) ==
    /\ authReq[p].pc = "create"
    /\ LET body == authReq[p].body
       IN  IF uniqueIndex(body.email, body.username)
           THEN /\ authReq' = [authReq EXCEPT ![p].pc = "done", ![p].err = "DuplicateKey"]
                /\ UNCHANGED <<users, tokens>>
           ELSE /\ Len(users) < MaxAccounts
                /\ users' = Append(users, newUser(body.email, body.username, body.password))
                /\ tokens' = keep(signToken(Len(users) + 1))
                /\ authReq' = [authReq EXCEPT ![p].pc = "done", ![p].id = Len(users) + 1]
    /\ UNCHANGED outsideUsers

----------------------------------------------------------------------------
(* Specifications *)

vars == <<fb, now, ticks, isHealthy, lastHealthCheck, initPending, aiCall, aiWait,
          sessions, uuidCount, req, ops, served, life, events, users, tokens, authRes,
          authReq, front, client, prompt>>

AuthInit ==
    /\ users = <<>>
    /\ tokens = {}
    /\ authRes = NoRes
    /\ authReq = [p \in AuthRequests |-> IdleAuth]

SessionInit ==
    /\ sessions = <<>>
    /\ uuidCount = 0
    /\ req = [r \in Requests |-> IdleReq]
    /\ ops = 0
    /\ served = NotServed
    /\ life = IdleLife
    /\ events = NoEvents
    /\ front = NoFront
    /\ client = NoClient
    /\ prompt = NoPrompt

ClockInit == now = 0 /\ ticks = 0

AIInit ==
    /\ isHealthy = FALSE
    /\ lastHealthCheck = NoDate
    /\ initPending = TRUE
    /\ aiCall = NoCall
    /\ aiWait = IdleWait

\* the AI service, called one request at a time
InitAI == ClockInit /\ AIInit /\ SessionInit /\ AuthInit /\ fb = FbIdle

AINext == Initialize \/ HealthCheck \/ GenerateHint \/ AnalyzeCode \/ AITick

SpecAI == InitAI /\ [][AINext]_vars

\* AIService calls waiting for the provider; the event loop runs a
\* continuation once its promise is settled, nothing makes the provider settle
ProviderNext == AwaitProvider \/ ProviderSettles \/ Resume \/ WaitTick

SpecProvider == InitAI /\ [][ProviderNext]_vars /\ WF_vars(Resume)

\* getFallbackHint on every pair of argument tuples
InitFallback ==
    /\ ClockInit /\ AIInit /\ SessionInit /\ AuthInit
    /\ \E a \in FallbackArgs, b \in FallbackArgs : fb = [FbIdle EXCEPT !.a = a, !.b = b]

FallbackNext == CallFallbackHint

SpecFallback == InitFallback /\ [][FallbackNext]_vars

\* the session ledger, one request at a time
LedgerNext == HintRequest \/ AnalysisRequest

SpecLedger == InitAI /\ [][LedgerNext]_vars

\* the request orchestrator, one request at a time, any one write rejected
OrchestratorNext == HintRoute \/ AnalysisRoute

SpecOrchestrator == InitAI /\ [][OrchestratorNext]_vars

StagedHintRoute == ops < MaxStagedOps /\ HintRoute

StagedAnalysisRoute == ops < MaxStagedOps /\ AnalysisRoute

\* the request orchestrator over a short run of requests
StagesNext == StagedHintRoute \/ StagedAnalysisRoute

SpecStages == InitAI /\ [][StagesNext]_vars

\* the session ledger under concurrent requests
SessionNext ==
    \E r \in Requests :
        ReqStart(r) \/ ReqFind(r) \/ ReqCreate(r) \/ ReqGenerate(r) \/ ReqAppend(r)

SpecSession == InitAI /\ [][SessionNext]_vars

LifeHintRequest == ops < MaxAppends /\ HintRequest

LifeAnalysisRequest == ops < MaxAppends /\ AnalysisRequest

\* the session lifecycle: requests served one at a time, the caller of
\* end / feedback working on the document it loaded, the sweep, the clock
LifecycleNext ==
    \/ LifeHintRequest \/ LifeAnalysisRequest
    \/ LifeLoad \/ EndSession \/ AddFeedback \/ Sweep \/ LifeTick

SpecLifecycle == InitAI /\ [][LifecycleNext]_vars

\* end / feedback / sweep racing with requests in flight, from the moment a
\* session a client opened with one hint has been idle for longer than the
\* sweep's window
InitRace ==
    /\ AIInit /\ AuthInit /\ fb = FbIdle
    /\ now = SweepWindow + MsPerSecond /\ ticks = 0
    /\ \E sid \in ClientSids, problem \in Problems :
        sessions = <<[newSession(sid, problem) EXCEPT
                         !.createdAt = 0, !.metrics.startTime = 0,
                         !.hints = <<[record("hint", <<"hint">>) EXCEPT !.timestamp = 0]>>,
                         !.metrics.hintsRequested = 1]>>
    /\ uuidCount = 0
    /\ req = [r \in Requests |-> IdleReq]
    /\ ops = 0
    /\ served = NotServed
    /\ life = IdleLife
    /\ events = NoEvents
    /\ front = NoFront
    /\ client = NoClient
    /\ prompt = NoPrompt

Racers == 1..NumRacers

RaceNext ==
    \/ \E r \in Racers :
            ReqStart(r) \/ ReqFind(r) \/ ReqCreate(r) \/ ReqGenerate(r) \/ ReqAppend(r)
    \/ LifeLoad \/ EndSession \/ AddFeedback \/ Sweep

SpecRace == InitRace /\ [][RaceNext]_vars

\* the lifecycle of a stored session and of the sessions few requests open:
\* time passes while an active session is still inside the sweep window
\* a request for one problem, served with every write accepted
StatusRequest(op) ==
    /\ ops < MaxStatusOps
    /\ Handler(op, {"none"}, 0, {"Two Sum"}, ClientSids \cup {NoSid})
    /\ UNCHANGED <<req, outsideSessions>>

StatusHint == StatusRequest("hint")

StatusAnalysis == StatusRequest("analysis")

StatusTick ==
    /\ \E i \in 1..Len(sessions) :
        sessions[i].status = "active" /\ sessions[i].createdAt >= now - SweepWindow
    /\ LifeTick

StatusNext ==
    \/ StatusHint \/ StatusAnalysis
    \/ LifeLoad \/ EndSession \/ AddFeedback \/ Sweep \/ StatusTick

SpecStatus == InitRace /\ [][StatusNext]_vars

\* the credential guard, one request at a time
AuthNext ==
    Register \/ Login \/ OptionalRequest \/ VerifyRequest \/ ChangePassword \/ AuthTick

SpecAuth == InitAI /\ [][AuthNext]_vars

\* the credential guard with account removal, one request at a time
AccountNext ==
    Register \/ Login \/ OptionalRequest \/ VerifyRequest \/ DeleteAccount

SpecAccount == InitAI /\ [][AccountNext]_vars

\* one account registered, its client holding the token createSendToken sent
InitFront ==
    /\ ClockInit /\ AIInit /\ SessionInit /\ fb = FbIdle
    /\ \E email \in Emails, username \in Usernames, password \in Passwords :
        users = <<newUser(email, username, password)>>
    /\ tokens = {signToken(1)}
    /\ authRes = NoRes
    /\ authReq = [p \in AuthRequests |-> IdleAuth]

\* the /api/ai chain while the account is removed and its token runs out
FrontNext ==
    DeleteAccount \/ TokenLifetime \/ FrontHint \/ FrontAnalysis

SpecFront == InitFront /\ [][FrontNext]_vars

\* the extension against the backend
ClientNext == ClientHint \/ ClientAnalysis \/ ClientHealth

SpecClient == InitAI /\ [][ClientNext]_vars

\* the prompt builders on their own
PromptNext == BuildHintPrompt \/ BuildAnalysisPrompt

SpecPrompt == InitAI /\ [][PromptNext]_vars

\* logins on one registered account, in flight at the same time
InitLoginRace ==
    /\ ClockInit /\ AIInit /\ SessionInit /\ fb = FbIdle
    /\ \E email \in Emails, username \in Usernames, password \in Passwords :
        users = <<newUser(email, username, password)>>
    /\ tokens = {}
    /\ authRes = NoRes
    /\ authReq = [p \in AuthRequests |-> IdleAuth]

LoginRaceNext ==
    \E p \in AuthRequests : LoginFind(p) \/ LoginIncrement(p) \/ LoginReset(p) \/ AuthDone(p)

SpecLoginRace == InitLoginRace /\ [][LoginRaceNext]_vars

\* registrations in flight at the same time
RegisterRaceNext ==
    \E p \in AuthRequests : RegFind(p) \/ RegCreate(p) \/ AuthDone(p)

SpecRegisterRace == InitAI /\ [][RegisterRaceNext]_vars

----------------------------------------------------------------------------
(* AI Resilience Wrapper: claims *)

LadderLen == Len(fallbackHints(TRUE))

LoopCount(code) == Cardinality({i \in 1..Len(code) : code[i] = "for"})

Contains(content, note) == \E i \in 1..Len(content) : content[i] = note

\* C7: for every provider outcome (text, empty text, error) generateHint
\* returns a non-empty string and does not raise.
C7_HintNeverEmpty ==
    aiCall.op = "hint" => (~aiCall.raised /\ aiCall.content # <<>>)

\* C8 as stated: the fallback hint depends on nothing but hintIndex (two calls
\* with the same hintIndex return the same string), the strings for
\* hintIndex 0..N-1 are pairwise distinct, and every hintIndex >= N-1 returns
\* the same last entry.
C8_DependsOnIndexOnly ==
    fb.called =>
        /\ (fb.a.n = fb.b.n => fb.ra = fb.rb)
        /\ (fb.a.n # fb.b.n /\ fb.a.n < LadderLen /\ fb.b.n < LadderLen => fb.ra # fb.rb)
        /\ (fb.a.n >= LadderLen - 1 /\ fb.b.n >= LadderLen - 1 => fb.ra = fb.rb)

\* C8 (amended): the fallback hint is the ladder entry at min(hintIndex, N-1);
\* it depends on hintIndex and, for the last entry only, on whether code is
\* present, never on platform or difficulty; the strings for hintIndex 0..N-1
\* are pairwise distinct; every hintIndex >= N-1 with the same code-presence
\* flag returns the same last entry; the string is never empty.
C8_FallbackLadder ==
    fb.called =>
        /\ fb.ra # <<>> /\ fb.ra # <<"">>
        /\ fb.ra = <<fallbackHints(fb.a.hasCode)[Min(fb.a.n, LadderLen - 1) + 1]>>
        /\ (fb.a.n = fb.b.n /\ fb.a.hasCode = fb.b.hasCode => fb.ra = fb.rb)
        /\ (fb.a.n = fb.b.n /\ fb.a.n < LadderLen - 1 => fb.ra = fb.rb)
        /\ (fb.a.n # fb.b.n /\ fb.a.n < LadderLen /\ fb.b.n < LadderLen => fb.ra # fb.rb)
        /\ (fb.a.n >= LadderLen - 1 /\ fb.b.n >= LadderLen - 1 /\ fb.a.hasCode = fb.b.hasCode
                => fb.ra = fb.rb)

\* C8 witness: the ladder is exhausted in one call and not in the other, and
\* the two calls differ in platform, difficulty and code presence
C8_Witness ==
    /\ fb.called
    /\ fb.a.n > LadderLen - 1 /\ fb.b.n = LadderLen - 1
    /\ fb.a.hasCode /\ ~fb.b.hasCode
    /\ fb.a.platform # fb.b.platform /\ fb.a.difficulty # fb.b.difficulty
    /\ fb.ra # fb.rb

\* C9: when the provider call fails, analyzeCode does not raise and returns a
\* non-empty analysis in which the nested-loop warning appears only if the code
\* has at least two loops, and the placeholder note appears exactly when the
\* code has a placeholder return.
C9_FallbackAnalysisRules ==
    (aiCall.op = "analysis" /\ aiCall.providerFailed) =>
        /\ ~aiCall.raised
        /\ aiCall.content # <<>>
        /\ (Contains(aiCall.content, NestedLoopNote) => LoopCount(aiCall.userCode) >= 2)
        /\ (Contains(aiCall.content, PlaceholderNote) <=> hasPlaceholderReturn(aiCall.userCode))

\* C10: a provider call of generateHint / analyzeCode that fails while the
\* wrapper is healthy leaves the wrapper degraded when the call returns.
C10_FailureDegrades ==
    (aiCall.op \in {"hint", "analysis"} /\ aiCall.providerFailed /\ aiCall.healthyAtCall)
        => ~isHealthy

\* the reply carries the acknowledgment the canary prompt asks for
Acknowledged(text) == \E i \in 1..Len(text) : text[i] = "OK"

\* C11: after every probe (the constructor's, the health route's, or one made
\* on behalf of generateHint / analyzeCode) isHealthy is true exactly when the
\* provider answered, without raising, a reply carrying the acknowledgment, and
\* lastHealthCheck is the time of that probe; the probe does not raise.
C11_ProbeSetsHealth ==
    aiCall.probed =>
        /\ isHealthy <=> (~aiCall.probeRaised /\ Acknowledged(aiCall.probeReply))
        /\ lastHealthCheck = aiCall.at
        /\ ~aiCall.raised

\* C11 witness: a probe whose reply does not match takes the wrapper from
\* healthy to degraded, at a time later than the check before it
C11_Witness ==
    /\ aiCall.op = "probe" /\ aiCall.healthyBefore /\ ~isHealthy
    /\ ~aiCall.probeRaised /\ aiCall.probeReply # <<>>
    /\ aiCall.lastCheckBefore # NoDate /\ aiCall.lastCheckBefore < aiCall.at

\* C12: generateHint / analyzeCode probe before calling the provider exactly
\* when the wrapper is degraded and a last check exists that is more than
\* 60 seconds old; after a call that did not probe, lastHealthCheck stays what
\* it was before the call however much time passes (no background timer).
C12_ProbeWhenDue ==
    aiCall.op \in {"hint", "analysis"} =>
        /\ aiCall.probed <=> /\ ~aiCall.healthyBefore
                              /\ aiCall.lastCheckBefore # NoDate
                              /\ aiCall.at - aiCall.lastCheckBefore > ProbeInterval
        /\ ~aiCall.probed => lastHealthCheck = aiCall.lastCheckBefore

\* C12 witness: a hint call made while degraded, more than 60 seconds after
\* the last check, has probed and found the provider back
C12_Witness ==
    /\ aiCall.op = "hint" /\ aiCall.probed /\ ~aiCall.healthyBefore
    /\ aiCall.at - aiCall.lastCheckBefore > ProbeInterval
    /\ isHealthy

----------------------------------------------------------------------------
(* Session Ledger: claims *)

Quiescent == \A r \in Requests : req[r].pc \in {"idle", "done"}

HintsAppendedTo(i) ==
    Cardinality({r \in Requests : req[r].status = "ok" /\ req[r].op = "hint" /\ req[r].ld.id = i})

\* C4: once N concurrent hint requests against one session have all finished,
\* the session holds exactly N hint records and hintsRequested = N.
C4_NoLostUpdates ==
    Quiescent =>
        \A i \in 1..Len(sessions) :
            /\ Len(sessions[i].hints) = HintsAppendedTo(i)
            /\ sessions[i].metrics.hintsRequested = HintsAppendedTo(i)

\* C5: with requests served one at a time, every session's hintsRequested is
\* the number of its stored hints and analysesRequested the number of its
\* stored analyses.
C5_CountsMatchRecords ==
    \A i \in 1..Len(sessions) :
        /\ sessions[i].metrics.hintsRequested = Len(sessions[i].hints)
        /\ sessions[i].metrics.analysesRequested = Len(sessions[i].codeAnalyses)

\* C5 witness: three hints appended to one session, and an analysis as well
C5_Witness ==
    \E i \in 1..Len(sessions) :
        /\ Len(sessions[i].hints) = 3
        /\ sessions[i].metrics.hintsRequested = 3
        /\ Len(sessions[i].codeAnalyses) = 1

PastResolve(r) == req[r].pc \in {"generate", "append", "done"}

\* C6: two requests carrying the same correlation id, also when they run
\* concurrently, both get through findOrCreate and resolve to one session,
\* created by one of them only and holding that one's problem descriptor.
C6_SameIdSameSession ==
    \A r1, r2 \in Requests :
        (r1 # r2 /\ req[r1].sid # NoSid /\ req[r1].sid = req[r2].sid
              /\ PastResolve(r1) /\ PastResolve(r2))
        => /\ req[r1].err # "DuplicateKey" /\ req[r2].err # "DuplicateKey"
           /\ req[r1].ld.id = req[r2].ld.id
           /\ ~(req[r1].created /\ req[r2].created)
           /\ (req[r1].created => sessions[req[r1].ld.id].problem = req[r1].problem)

----------------------------------------------------------------------------
(* Request orchestrator: claims *)

\* C17: no hint / analysis request is answered with an error because the
\* recording of its session_started, hint_requested or code_analyzed event
\* was rejected: a request whose only rejected write is an event record gets
\* the success response.
C17_RecordFailureSwallowed ==
    (served.op # "none" /\ served.fault \in {"session_started", "event"}
        /\ served.err \notin {"DuplicateKey", "ValidationError"})
    => served.status = "ok"

\* C18: every request that has resolved its session is answered with hint /
\* analysis content, whatever fails afterwards.
C18_ContentAfterResolved ==
    (served.op # "none" /\ Len(served.stages) > 0) => served.content # <<>>

----------------------------------------------------------------------------
(* Session lifecycle: claims *)

\* C13: in every reachable state every session whose status is not active has
\* endTime set.
C13_EndedHasEndTime ==
    \A i \in 1..Len(sessions) :
        sessions[i].status # "active" => sessions[i].metrics.endTime # NoDate

IsPrefix(a, b) == Len(a) <= Len(b) /\ \A k \in 1..Len(a) : a[k] = b[k]

C15_EndIdempotent ==
    [][(/\ life.pc = "loaded" /\ life.op = "end" /\ life'.pc = "idle"
        /\ sessions[life.ld.id].metrics.endTime # NoDate)
       => LET was == sessions[life.ld.id]
              is  == sessions'[life.ld.id]
          IN  /\ is.metrics.endTime = was.metrics.endTime
              /\ is.metrics.duration = was.metrics.duration
              /\ is.metrics.completed = was.metrics.completed
              /\ is.status = was.status]_vars

\* the time of a session's last hint or analysis append, its creation if none
lastActivity(doc) ==
    LET times == {doc.createdAt}
                    \cup {doc.hints[k].timestamp : k \in 1..Len(doc.hints)}
                    \cup {doc.codeAnalyses[k].timestamp : k \in 1..Len(doc.codeAnalyses)}
    IN  CHOOSE t \in times : \A u \in times : u <= t

\* C16: after a sweep, every session the sweep has abandoned had no append
\* within the window before the sweep, and every session still active had
\* activity within it.
C16_SweepByInactivity ==
    (life.op = "sweep" /\ life.pc = "idle") =>
        \A i \in 1..Len(sessions) :
            LET doc  == sessions[i]
                idle == lastActivity(doc) < life.at - SweepWindow
            IN  /\ (doc.status = "abandoned" /\ doc.metrics.endTime = NoDate) => idle
                /\ doc.status = "active" => ~idle

----------------------------------------------------------------------------
(* Credential Guard: claims *)

\* C1: a login attempt made while the account is locked (lockUntil not yet
\* elapsed), whatever password it carries, fails with AccountLocked and a
\* remaining time above zero, issues no token and leaves loginAttempts and
\* lockUntil uncleared.
C1_LockedLoginRefused ==
    (authRes.op = "login" /\ authRes.lockedBefore) =>
        /\ authRes.err = "AccountLocked"
        /\ authRes.minutesLeft > 0
        /\ authRes.token = NoToken
        /\ users[authRes.user].lockUntil = authRes.lockUntilBefore
        /\ users[authRes.user].loginAttempts >= authRes.attemptsBefore

\* C2: a token presented to verifyToken after a password change later than
\* its issue is refused as Superseded; a valid token issued after the change
\* is accepted.
C2_OldTokenSuperseded ==
    (authRes.op = "verify" /\ authRes.presented.signed) =>
        LET token == authRes.presented
            u     == users[token.id]
        IN  /\ token.issuedAt < u.passwordChangedAt => authRes.err = "Superseded"
            /\ (token.issuedAt > u.passwordChangedAt /\ u.isActive /\ jwtVerify(token) = "ok")
                   => authRes.err = "none"

\* C3: no request, on the required or on the optional path, is attributed to
\* an account on the strength of a token issued before that account's
\* passwordChangedAt.
C3_NoOldTokenAccepted ==
    (authRes.op \in {"verify", "optional"} /\ authRes.user # 0) =>
        ~(authRes.presented.issuedAt < users[authRes.user].passwordChangedAt)

\* a login refused for a wrong password on an existing account that was not locked
WrongPasswordUnlocked ==
    /\ authRes.op = "login" /\ authRes.err = "InvalidCredentials"
    /\ authRes.user # 0 /\ ~authRes.lockedBefore

\* C19 as stated: every wrong-password login on an existing unlocked account
\* leaves loginAttempts one higher than it found it, with no lockUntil while
\* the count is below maxLoginAttempts and lockUntil = now + lockoutTime when
\* the count reaches it.
C19_EachFailureIncrements ==
    WrongPasswordUnlocked =>
        LET u == users[authRes.user]
            k == authRes.attemptsBefore + 1
        IN  /\ u.loginAttempts = k
            /\ k < maxLoginAttempts => u.lockUntil = NoDate
            /\ k = maxLoginAttempts => u.lockUntil = authRes.at + lockoutTime

\* C19 (amended): a wrong-password login on an existing unlocked account
\* restarts loginAttempts at 1 and clears lockUntil when the account carries
\* a lock that has expired; otherwise it leaves loginAttempts one higher, with
\* no lockUntil while the count is below maxLoginAttempts and
\* lockUntil = now + lockoutTime when the count reaches it.
C19_FailureCountsAndLocks ==
    WrongPasswordUnlocked =>
        LET u == users[authRes.user]
            k == authRes.attemptsBefore + 1
        IN  IF authRes.lockUntilBefore # NoDate /\ authRes.lockUntilBefore < authRes.at
            THEN u.loginAttempts = 1 /\ u.lockUntil = NoDate
            ELSE /\ u.loginAttempts = k
                 /\ k < maxLoginAttempts => u.lockUntil = NoDate
                 /\ k = maxLoginAttempts => u.lockUntil = authRes.at + lockoutTime

\* C19 witness: the failure that brings the count to maxLoginAttempts, made
\* some time after registration, has locked the account for lockoutTime
C19_Witness ==
    /\ WrongPasswordUnlocked
    /\ authRes.attemptsBefore = maxLoginAttempts - 1
    /\ authRes.at > 0
    /\ users[authRes.user].loginAttempts = maxLoginAttempts
    /\ users[authRes.user].lockUntil = authRes.at + lockoutTime

\* C20: after a successful login the account's loginAttempts is zero and no
\* lock is stored, so that a later run of failures starts from zero; a login
\* that fails, for whatever reason, never brings a non-zero counter to zero.
C20_SuccessResetsCounter ==
    (authRes.op = "login" /\ authRes.user # 0) =>
        LET u == users[authRes.user]
        IN  /\ authRes.err = "none" => (u.loginAttempts = 0 /\ u.lockUntil = NoDate)
            /\ (authRes.err # "none" /\ authRes.attemptsBefore > 0) => u.loginAttempts > 0

\* C20 witness: a login with the right password after three failures has
\* succeeded and left the counter at zero
C20_Witness ==
    /\ authRes.op = "login" /\ authRes.err = "none" /\ authRes.token # NoToken
    /\ authRes.attemptsBefore = maxLoginAttempts - 2
    /\ users[authRes.user].loginAttempts = 0

\* a wrong-password login on an account whose lock had run out by then
WrongPasswordAfterExpiry ==
    /\ WrongPasswordUnlocked
    /\ authRes.lockUntilBefore # NoDate
    /\ authRes.lockUntilBefore <= authRes.at

\* C21: a lock is not cleared by time alone: the stored lockUntil and
\* loginAttempts of an account change in a login attempt only, never in a
\* step in which time passes; and the first wrong-password login once
\* lockUntil has run out leaves loginAttempts = 1 and no lockUntil, whatever
\* the count was.
C21_LockClearedLazily ==
    /\ [][\A i \in 1..Len(users) :
            (users'[i].lockUntil # users[i].lockUntil
                \/ users'[i].loginAttempts # users[i].loginAttempts)
                    => (now' = now /\ authRes'.op = "login")]_vars
    /\ [](WrongPasswordAfterExpiry =>
            /\ users[authRes.user].loginAttempts = 1
            /\ users[authRes.user].lockUntil = NoDate)

\* C22: with wrong-password logins on one account in flight at the same
\* time, every failed attempt adds exactly one to the stored loginAttempts,
\* and whenever the stored loginAttempts has reached maxLoginAttempts the
\* account carries a lockUntil.
C22_LockAgainstStoredCount ==
    /\ [][\A p \in AuthRequests :
            (authReq[p].pc = "increment" /\ authReq'[p].pc = "done") =>
                users'[authReq[p].id].loginAttempts
                    = users[authReq[p].id].loginAttempts + 1]_vars
    /\ [](\A i \in 1..Len(users) :
            users[i].loginAttempts >= maxLoginAttempts => users[i].lockUntil # NoDate)

\* C23: under every interleaving of failed and successful logins on one
\* account, a step that sets lockUntil leaves the stored loginAttempts at
\* maxLoginAttempts or above.
C23_LockOnlyAtThreshold ==
    [][\A i \in 1..Len(users) :
        (users'[i].lockUntil # NoDate /\ users'[i].lockUntil # users[i].lockUntil)
            => users'[i].loginAttempts >= maxLoginAttempts]_vars

\* C24: a password change with a wrong current password fails, leaves the
\* stored hash and passwordChangedAt as they were and changes the verdict on
\* no token issued so far; with the right current password it stores the
\* hash of the new password and passwordChangedAt = the time of the change;
\* and a login whose password was compared is refused for its credentials
\* exactly when that password is not the one stored, so after a change only
\* the new password logs in.
C24_ChangePassword ==
    /\ [][(authRes'.op = "password" /\ authRes'.user # 0 /\ now' = now) =>
            LET id == authRes'.user
            IN  IF comparePassword(authRes'.compared, users[id].password)
                THEN /\ authRes'.err = "none"
                     /\ users'[id].password = bcryptHash(authRes'.assigned)
                     /\ users'[id].passwordChangedAt = now
                ELSE /\ authRes'.err = "InvalidCredentials"
                     /\ users' = users
                     /\ \A token \in tokens : verifyToken(token)' = verifyToken(token)]_vars
    /\ []((authRes.op = "login" /\ authRes.compared # NoField) =>
            (authRes.err = "InvalidCredentials"
                <=> ~comparePassword(authRes.compared, users[authRes.user].password)))

\* C24 witness: a change from one password to a different one, made some
\* time after registration, has stored the new hash and the time of the change
C24_Witness ==
    /\ authRes.op = "password" /\ authRes.err = "none"
    /\ authRes.compared # authRes.assigned
    /\ now > 0
    /\ users[authRes.user].password = bcryptHash(authRes.assigned)
    /\ users[authRes.user].passwordChangedAt = now

\* C24 witness of the refusal: a change with a wrong current password was
\* refused and the token that carried it is still accepted
C24_RefusedWitness ==
    /\ authRes.op = "password" /\ authRes.err = "InvalidCredentials"
    /\ verifyToken(authRes.presented) = "none"

\* an account with this email or this handle is stored
Taken(email, username) ==
    \E i \in 1..Len(users) : users[i].email = email \/ users[i].username = username

C26_RemovalIsSoft ==
    /\ [][/\ Len(users') >= Len(users)
          /\ (authRes'.op = "delete" /\ authRes'.err = "none" /\ now' = now) =>
                LET id == authRes'.user
                IN  /\ Len(users') = Len(users)
                    /\ ~users'[id].isActive
                    /\ users'[id].email \notin Emails
                    /\ users'[id].username \notin Usernames]_vars
    /\ [](\A i \in 1..Len(users) :
            ~users[i].isActive =>
                /\ \A token \in Presentable : token.id = i => verifyToken(token) # "none"
                /\ \A token \in Presentable : optionalAuth(token) # i
                /\ \A identifier \in Emails \cup Usernames :
                        findByEmailOrUsername(identifier) # i)
    /\ []((authRes.user # 0 /\ ~users[authRes.user].isActive) =>
            /\ authRes.op = "verify" => authRes.err # "none"
            /\ authRes.op # "optional"
            /\ authRes.op = "login" => authRes.err # "none")

\* C26 witness: after a removal, a login with the email the account was
\* registered under has been refused, the document is still stored and the
\* token the account held is refused by verifyToken
C26_Witness ==
    /\ authRes.op = "login" /\ authRes.err = "InvalidCredentials" /\ authRes.user = 0
    /\ Len(users) = 1 /\ ~users[1].isActive
    /\ \E token \in tokens : token.id = 1 /\ verifyToken(token) = "Inactive"

\* AI Resilience Wrapper: degraded mode

\* the local fallback content for the arguments of the last call
fallbackFor(call) ==
    IF call.op = "hint"
    THEN getFallbackHint(call.nPrev, Len(call.userCode) > 0, call.platform, "Unknown")
    ELSE getFallbackCodeAnalysis(call.userCode, call.platform)

\* C28: a generateHint / analyzeCode call that reaches its provider call with
\* the wrapper degraded (isHealthy false, after any probe the call made)
\* returns the local fallback content and nothing the provider generated.
C28_DegradedOnlyFallback ==
    (aiCall.op \in {"hint", "analysis"} /\ ~aiCall.healthyAtCall) =>
        /\ aiCall.providerFailed
        /\ aiCall.content = fallbackFor(aiCall)

\* C29: every healthCheck, generateHint and analyzeCode call returns, also
\* when the provider never answers: a call waiting for the provider is
\* eventually over.
C29_CallsReturn == (aiWait.pc = "waiting") ~> (aiWait.pc = "idle")

----------------------------------------------------------------------------
(* Session Ledger: findOrCreate *)

\* C27: a request whose X-Session-ID is absent or resolves to no active
\* session (unknown, or the id of a session already completed or abandoned)
\* gets a session created for it, and the new session's sessionId is a newly
\* generated one, different from the sessionId of every stored session.
C27_NewSessionFreshId ==
    [][(ops' = ops + 1 /\ (served'.sid = NoSid \/ findActive(served'.sid) = 0)) =>
            /\ served'.err # "DuplicateKey"
            /\ served'.created
            /\ Len(sessions') = Len(sessions) + 1
            /\ LET newId == sessions'[Len(sessions')].sessionId
               IN  /\ newId.kind = "uuid"
                   /\ \A i \in 1..Len(sessions) : sessions[i].sessionId # newId]_vars

\* C27, the part about an ended session alone: such a request is not refused
C27_EndedIdNotRefused ==
    [][(ops' = ops + 1 /\ served'.sid # NoSid /\ findActive(served'.sid) = 0)
            => served'.err # "DuplicateKey"]_vars

----------------------------------------------------------------------------
(* Request orchestrator: order of the stages *)

\* the records of the kind the request asks for, in a stored session
recordsOf(doc, op) == IF op = "hint" THEN doc.hints ELSE doc.codeAnalyses

\* C30: a hint / analysis request answered with success has gone through
\* session resolved, content produced, record appended, event recorded,
\* response sent, in this order: when the success response is sent the
\* session it names is stored, its records are the earlier ones followed by
\* one record holding the content sent, and one more event of the request's
\* type is stored; a request stopped before its append or its event is not
\* answered with success.
C30_SuccessAfterAllStages ==
    [][(ops' = ops + 1 /\ served'.status = "ok") =>
        LET id   == served'.id
            op   == served'.op
            type == IF op = "hint" THEN "hint_requested" ELSE "code_analyzed"
            old  == IF served'.created THEN <<>> ELSE recordsOf(sessions[id], op)
            new  == recordsOf(sessions'[id], op)
        IN  /\ served'.stages = <<"resolved", "produced", "appended", "recorded", "responded">>
            /\ id \in 1..Len(sessions')
            /\ served'.sid # NoSid => sessions'[id].sessionId = served'.sid
            /\ served'.content # <<>>
            /\ Len(new) = Len(old) + 1
            /\ IsPrefix(old, new)
            /\ new[Len(new)].content = served'.content
            /\ events'[type] = events[type] + 1
            /\ served'.fault = "none"]_vars

\* C30 witness: an analysis request on a session opened by an earlier
\* request was answered with success; its record is the session's last and
\* its event is stored
C30_Witness ==
    /\ served.op = "analysis" /\ served.status = "ok" /\ ~served.created
    /\ served.stages = <<"resolved", "produced", "appended", "recorded", "responded">>
    /\ Len(sessions[served.id].codeAnalyses) >= 1
    /\ sessions[served.id].codeAnalyses[Len(sessions[served.id].codeAnalyses)].content
            = served.content
    /\ events["code_analyzed"] >= 1

----------------------------------------------------------------------------
(* The /api/ai chain before the session is resolved *)

\* the request carried a bearer token that does not authenticate an account
AuthenticationFailed == front.presented # NoToken /\ front.tokenCheck # "none"

\* the request was ended before findOrCreateSession was called
EndedBeforeResolve == front.op # "none" /\ ~front.reached

\* C31: a hint / analysis request is ended before its session is resolved
\* exactly when its authentication failed: no validation failure or missing
\* header ends it there, and every authentication failure does
C31_OnlyAuthShortCircuits ==
    front.op # "none" => (EndedBeforeResolve <=> AuthenticationFailed)

\* the two halves on their own
C31_NoOtherShortCircuit == EndedBeforeResolve => AuthenticationFailed

C31_AuthFailureEndsRequest == AuthenticationFailed => EndedBeforeResolve

----------------------------------------------------------------------------
(* The extension's requests of one problem-solving attempt *)

\* C32: the hint / analysis requests one client sends for one attempt carry
\* the same correlation id, so they resolve to one session whose records
\* accumulate: after k hint requests served there is one session, holding k hints
C32_OneSessionPerAttempt ==
    client.served >= 1 =>
        /\ Len(sessions) = 1
        /\ Len(sessions[1].hints) = client.served

\* the first half on its own: a request carries the id of the request before it
C32_SameCorrelationId ==
    [][(client.sids >= 1 /\ client'.sids = client.sids + 1) => client'.sid = client.sid]_vars

\* the fetch of the last GENERATE_HINT / ANALYZE_CODE message failed: the
\* backend was unreachable or answered with an error status
BackendFailed ==
    /\ client.type \in {"GENERATE_HINT", "ANALYZE_CODE"}
    /\ client.net # "routed" \/ served.status = "error"

C34_ErrorStatusWitness ==
    /\ client.type = "ANALYZE_CODE" /\ client.net = "routed" /\ served.status = "error"
    /\ client.response.success
    /\ Includes(client.response.text, <<"Quick Code Review">>)

\* C40: the client reports the service as online only if the backend health
\* request succeeded; when the backend is unreachable or answers with an
\* error status it reports offline
C40_OnlineOnlyIfHealthy ==
    (client.type = "HEALTH_CHECK" /\ client.reported) =>
        /\ client.online = "online" => client.net = "routed"
        /\ client.net \in {"unreachable", "refused"} => client.online = "offline"

----------------------------------------------------------------------------
(* What of the request goes into the provider prompt *)

\* C33: in the prompt of a hint and in the prompt of an analysis the code
\* snapshot is cut to a fixed length and the problem statement to a fixed
\* length, whatever the length of the input
C33_PromptWithinBudgets ==
    prompt.op # "none" =>
        /\ prompt.code <= CodeBudget
        /\ prompt.statement <= StatementBudget

\* the hint prompt on its own
C33_HintPromptWithinBudgets ==
    prompt.op = "hint" =>
        /\ prompt.code <= CodeBudget
        /\ prompt.statement <= StatementBudget

----------------------------------------------------------------------------
(* status and isActive of a session *)

\* the two fields of a stored session agree
FieldsAgree(doc) == doc.isActive <=> (doc.status = "active")

\* C35: in every reachable state every session has isActive true exactly when
\* its status is active; a step changes the status or isActive of a stored
\* session only if it is endSession or the sweep, and such a step on an active
\* session changes both fields; an append and a feedback change neither
C35_ActiveIffStatusActive ==
    /\ [](\A i \in 1..Len(sessions) : FieldsAgree(sessions[i]))
    /\ [][\A i \in 1..Len(sessions) :
            (sessions'[i].status # sessions[i].status
                \/ sessions'[i].isActive # sessions[i].isActive)
            => /\ life' # life /\ life'.op \in {"end", "sweep"}
               /\ sessions'[i].status # sessions[i].status
               /\ sessions[i].isActive => ~sessions'[i].isActive]_vars

\* C35 witness: a session that took an append was ended as completed, then
\* took feedback: it is completed and not active; another was swept
C35_Witness ==
    /\ life.op = "feedback"
    /\ \E i \in 1..Len(sessions) :
        /\ sessions[i].status = "completed" /\ ~sessions[i].isActive
        /\ sessions[i].feedback # NoFeedback
        /\ Len(sessions[i].hints) >= 1

\* C35, second witness: the sweep has moved a session to abandoned
C35_SweptWitness ==
    /\ life.op = "sweep"
    /\ \E i \in 1..Len(sessions) :
        /\ sessions[i].status = "abandoned" /\ ~sessions[i].isActive
        /\ sessions[i].metrics.endTime = NoDate

\* C36: a session whose status has left active is never set back to active;
\* findOrCreateSession hands a request only a session that is active (one it
\* found active or one it created); the sweep changes only sessions that are
\* active
C36_NeverReactivated ==
    /\ [][\A i \in 1..Len(sessions) :
            sessions[i].status # "active" => sessions'[i].status # "active"]_vars
    /\ [][(ops' = ops + 1 /\ served'.id # 0) =>
            /\ sessions'[served'.id].status = "active"
            /\ served'.created \/ sessions[served'.id].status = "active"]_vars
    /\ [][(life' # life /\ life'.op = "sweep") =>
            \A i \in 1..Len(sessions) :
                sessions'[i] # sessions[i] => sessions[i].status = "active"]_vars

\* C36 witness: a request carried the id of a session that had been ended;
\* it was not handed that session, which is still not active
C36_Witness ==
    /\ served.sid # NoSid /\ served.id = 0 /\ served.err = "DuplicateKey"
    /\ \E i \in 1..Len(sessions) :
        /\ sessions[i].sessionId = served.sid
        /\ sessions[i].status \in {"completed", "abandoned"}
        /\ ~sessions[i].isActive

----------------------------------------------------------------------------
(* What a request answered with an error leaves in the ledger *)

\* C37: a generate-hint / analyze-code request answered with an error has
\* stored no hint or analysis record: the records of every session are those
\* stored before the request, and a session it created holds none
C37_ErrorLeavesNoRecord ==
    [][(ops' = ops + 1 /\ served'.status = "error") =>
        \A i \in 1..Len(sessions') :
            IF i <= Len(sessions)
            THEN /\ sessions'[i].hints = sessions[i].hints
                 /\ sessions'[i].codeAnalyses = sessions[i].codeAnalyses
            ELSE /\ sessions'[i].hints = <<>>
                 /\ sessions'[i].codeAnalyses = <<>>]_vars

----------------------------------------------------------------------------
(* Failures on a locked account *)

\* the last request was a login with a wrong password on an account that was
\* locked (lockUntil in the future) when the request was made
WrongPasswordWhileLocked ==
    /\ authRes.op = "login" /\ authRes.user # 0
    /\ authRes.err = "InvalidCredentials" /\ authRes.compared # NoField
    /\ authRes.lockedBefore

\* C38: a wrong-password attempt made while the account is locked leaves
\* lockUntil as it was, neither later nor earlier nor unset; loginAttempts
\* is one more than before
C38_LockedFailureKeepsLock ==
    WrongPasswordWhileLocked =>
        /\ users[authRes.user].lockUntil = authRes.lockUntilBefore
        /\ users[authRes.user].loginAttempts = authRes.attemptsBefore + 1

\* C38 witness: some time after the lock was set and before it ran out, a
\* wrong password was compared on the locked account and counted
C38_Witness ==
    /\ WrongPasswordWhileLocked
    /\ authRes.lockUntilBefore > now /\ authRes.lockUntilBefore < now + lockoutTime
    /\ users[authRes.user].loginAttempts > maxLoginAttempts

----------------------------------------------------------------------------
(* Tokens on the hint / analysis endpoints *)

\* the last /api/ai request carried a token that is invalid, expired or of
\* an account that is not active
BadTokenPresented ==
    /\ front.op # "none" /\ front.presented # NoToken
    /\ front.tokenCheck \in {"Invalid", "Expired", "NoUser", "Inactive"}

\* C39: on the hint / analysis endpoints a token that is present but invalid,
\* expired or of an inactive account does not fail the request: the request
\* goes on as an anonymous one (it reaches the handler whenever its headers
\* and body pass, and ends with no token error), and a session it creates has
\* no owning account
C39_BadTokenIsAnonymous ==
    BadTokenPresented =>
        /\ front.user = 0
        /\ front.reached <=>
              (extensionAuth(front.version) = "none"
                  /\ validateRequest(front.op, front.body) = "none")
        /\ front.err \notin {"NotLoggedIn", "Invalid", "Expired", "NoUser", "Inactive"}
        /\ front.created => sessions[front.session].userId = 0

\* C39 witness: a request with the token of a removed account opened a
\* session, which has no owner
C39_Witness ==
    /\ front.tokenCheck = "Inactive" /\ front.presented \in tokens
    /\ front.reached /\ front.created
    /\ sessions[front.session].userId = 0

\* C39, second witness: the same with a token that has run out
C39_ExpiredWitness ==
    /\ front.tokenCheck = "Expired" /\ front.presented \in tokens
    /\ front.reached /\ front.created /\ front.err = "none"
    /\ sessions[front.session].userId = 0

\* a request with a good token opens a session owned by the token's account
C39_OwnedSessionReached ==
    /\ front.tokenCheck = "none" /\ front.created
    /\ sessions[front.session].userId = front.presented.id
    /\ front.presented.id # 0

=============================================================================
